---------------------------- MODULE Spec2Model ----------------------------
(***************************************************************************)
(* redoc-express: the template renderer (src/redoc-html-template.ts), its  *)
(* context escapers (src/escape.ts) and the render-hook pipeline           *)
(* (src/hooks.ts).                                                         *)
(*                                                                         *)
(* A string is a sequence of characters; a character is a one-character    *)
(* TLA+ string, except the characters TLA+ cannot write in a string        *)
(* literal, which are named by their code point ("U+0060" is the grave     *)
(* accent, "U+0001" and "U+001F" are control characters).                  *)
(***************************************************************************)
EXTENDS Integers, Sequences, FiniteSets, TLC

VARIABLES
  \* one render call on the fixed template (redoc-html-template.ts)
  pc,            \* position of the call: Initial, TemplateFilled, Done
  fn,            \* the entry point called: redocHtml or redocHtmlSync
  cfg,           \* the options object of the call
  safe,          \* safeTitle, safeSpecUrl, safeNonce, safeOptions
  placed,        \* the text each of the four replace calls inserted
  renderedHtml,  \* the document being built
  result,        \* the string the call returned (resolved with)
  \* one application of a context escaper (escape.ts, and the inline
  \* escaping expressions of redocHtml)
  escIn,         \* the untrusted input string
  escFn,         \* the escaper applied, "none" before
  escOut,        \* its output
  \* one run of executeBeforeRenderHooks or executeAfterRenderHooks
  \* (hooks.ts)
  hpc,           \* Initial, Running, Done
  hkind,         \* the hook executed: beforeRender or afterRender
  hhtml,         \* the html given to the executor
  hplugins,      \* the plugins given to the executor
  hstatus,       \* per plugin, its reduce callback: waiting (on the
                 \* promise of the callback before it), running (its hook
                 \* was called and is awaited), settled
  hout,          \* per plugin, the value its callback resolved with
  hcalls,        \* the hook calls made, in the order they were made
  hresult,       \* the value the executor resolved with
  \* one request given to the handler redocExpressMiddleware returned
  \* (index.ts)
  mpc,           \* NotCreated, Created, Gate, Rendering, Sent, Forwarded;
                 \* for the onError middleware ErrorCreated, ErrorHooks,
                 \* ErrorForwarded, ErrorRejected
  mwOptions,     \* the options the middleware was created with
  req,           \* the request
  res,           \* the response
  rstatus,       \* per plugin, its reduce callback in the onRequest (or
                 \* onError) middleware: waiting, running (its hook was
                 \* called and has not called its continuation), resolved,
                 \* rejected
  rerr,          \* per plugin, the error its callback rejected with
  rcalls,        \* the plugins whose onRequest (or onError) hook was
                 \* called, in order
  hostNext,      \* the arguments of the calls of the host's next, in order
  trigger,       \* the error given to the handler createOnErrorMiddleware
                 \* returned
  continued,     \* the calls of the continuations given to onRequest hooks,
                 \* in order: the plugin and the error of each call
  \* one cache plugin (plugins/cache/index.ts)
  cpc,           \* NotCreated, Created, Returned (beforeRender was called)
  cacheOptions,  \* ttl (in milliseconds), maxSize and enabled of the plugin
  cache,         \* the HtmlCache: entries (the Map, in insertion order)
                 \* and currentSize
  now,           \* Date.now(), from the creation of the plugin
  clog,          \* the calls of the hooks of the plugin, in order, with
                 \* what each returned
  \* the plugin registry (plugin-system.ts)
  registry,      \* the Map of the registry: the plugins in insertion order
  rlast,         \* the last call made on the registry, with what it threw
                 \* or returned
  \* one metrics plugin (plugins/metrics/index.ts)
  mop,           \* the last call made on the plugin or on what it returned
  metricsOptions,\* enabled and onMetric of the plugin
  heap,          \* the Metric objects created, by their identity
  metrics,       \* the array of the MetricsCollector: identities of Metric
                 \* objects
  listening,     \* the Metric objects whose response has a finish listener
                 \* that has not run
  mtime,         \* Date.now(), from the creation of the plugin
  copy,          \* the array getMetrics returned last, as its caller holds it
  notified,      \* the Metric objects given to onMetric, in order
  finished,      \* the Metric objects whose response finished since the
                 \* plugin was created or cleared, in order
  \* the render calls a caller made before the one of pc
  history        \* the entry point, the options and the document returned
                 \* of each, in order

renderVars == <<pc, fn, cfg, safe, placed, renderedHtml, result>>
escVars == <<escIn, escFn, escOut>>
hookVars == <<hpc, hkind, hhtml, hplugins, hstatus, hout, hcalls, hresult>>
mwVars ==
  <<mpc, mwOptions, req, res, rstatus, rerr, rcalls, hostNext, trigger,
    continued>>
cacheVars == <<cpc, cacheOptions, cache, now, clog>>
regVars == <<registry, rlast>>
metricsVars ==
  <<mop, metricsOptions, heap, metrics, listening, mtime, copy, notified,
    finished>>
callVars == <<history>>
vars ==
  <<renderVars, escVars, hookVars, mwVars, cacheVars, regVars, metricsVars,
    callVars>>

----------------------------------------------------------------------------
(* Bounds of the model.                                                    *)

\* Input atoms (see Atoms) the four values of a render call hold in total.
MaxAtoms == 2
\* Input atoms (see EscAtoms) of the string given to an escaper.
MaxLen == 3
\* Plugins in the array given to a hook executor.
MaxPlugins == 2

\* Calls of afterRender on one cache plugin.
MaxStores == 2
\* Metrics the collector keeps (maxMetrics, 1000 in the code).
MaxMetrics == 2
\* Requests one metrics plugin is given.
MaxRequests == 3
\* Milliseconds that pass while requests are served.
MaxElapsed == 1
\* Render calls a caller makes one after the other, before the last one.
MaxCalls == 2

----------------------------------------------------------------------------
(* Characters.                                                             *)

Grave == "U+0060"
Ctl01 == "U+0001"
Ctl1F == "U+001F"
Undefined == "undefined"

----------------------------------------------------------------------------
(* The fixed template, src/redoc-html-template.ts lines 14-39, character   *)
(* by character; one line of the source per line.                          *)

html ==
  \* 14: <!DOCTYPE html>
     <<"<", "!", "D", "O", "C", "T", "Y", "P", "E", " ", "h", "t", "m", "l", ">", "\n">>
  \* 15: <html>
  \o <<"<", "h", "t", "m", "l", ">", "\n">>
  \* 16:   <head>
  \o <<" ", " ", "<", "h", "e", "a", "d", ">", "\n">>
  \* 17:     <title>[[title]]</title>
  \o <<" ", " ", " ", " ", "<", "t", "i", "t", "l", "e", ">", "[", "[", "t", "i", "t", "l", "e", "]", "]", "<", "/", "t", "i", "t", "l", "e", ">", "\n">>
  \* 18:     <meta charset="utf-8" />
  \o <<" ", " ", " ", " ", "<", "m", "e", "t", "a", " ", "c", "h", "a", "r", "s", "e", "t", "=", "\"", "u", "t", "f", "-", "8", "\"", " ", "/", ">", "\n">>
  \* 19:     <meta name="viewport" content="width=device-width, initial-scale=1" />
  \o <<" ", " ", " ", " ", "<", "m", "e", "t", "a", " ", "n", "a", "m", "e", "=", "\"", "v", "i", "e", "w", "p", "o", "r", "t", "\"", " ", "c", "o", "n", "t", "e", "n", "t", "=", "\"", "w", "i", "d", "t", "h", "=", "d", "e", "v", "i", "c", "e", "-", "w", "i", "d", "t", "h", ",", " ", "i", "n", "i", "t", "i", "a", "l", "-", "s", "c", "a", "l", "e", "=", "1", "\"", " ", "/", ">", "\n">>
  \* 20:     <link href="https://fonts.googleapis.com/css?family=Montserrat:300,400,700|Roboto:300,400,700" rel="stylesheet" />
  \o <<" ", " ", " ", " ", "<", "l", "i", "n", "k", " ", "h", "r", "e", "f", "=", "\"", "h", "t", "t", "p", "s", ":", "/", "/", "f", "o", "n", "t", "s", ".", "g", "o", "o", "g", "l", "e", "a", "p", "i", "s", ".", "c", "o", "m", "/", "c", "s", "s", "?", "f", "a", "m", "i", "l", "y", "=", "M", "o", "n", "t", "s", "e", "r", "r", "a", "t", ":", "3", "0", "0", ",", "4", "0", "0", ",", "7", "0", "0", "|", "R", "o", "b", "o", "t", "o", ":", "3", "0", "0", ",", "4", "0", "0", ",", "7", "0", "0", "\"", " ", "r", "e", "l", "=", "\"", "s", "t", "y", "l", "e", "s", "h", "e", "e", "t", "\"", " ", "/", ">", "\n">>
  \* 21:     <style>
  \o <<" ", " ", " ", " ", "<", "s", "t", "y", "l", "e", ">", "\n">>
  \* 22:       body {
  \o <<" ", " ", " ", " ", " ", " ", "b", "o", "d", "y", " ", "{", "\n">>
  \* 23:         margin: 0;
  \o <<" ", " ", " ", " ", " ", " ", " ", " ", "m", "a", "r", "g", "i", "n", ":", " ", "0", ";", "\n">>
  \* 24:         padding: 0;
  \o <<" ", " ", " ", " ", " ", " ", " ", " ", "p", "a", "d", "d", "i", "n", "g", ":", " ", "0", ";", "\n">>
  \* 25:       }
  \o <<" ", " ", " ", " ", " ", " ", "}", "\n">>
  \* 26:     </style>
  \o <<" ", " ", " ", " ", "<", "/", "s", "t", "y", "l", "e", ">", "\n">>
  \* 27:   </head>
  \o <<" ", " ", "<", "/", "h", "e", "a", "d", ">", "\n">>
  \* 28:   <body>
  \o <<" ", " ", "<", "b", "o", "d", "y", ">", "\n">>
  \* 29:     <div id="redoc-container"></div>
  \o <<" ", " ", " ", " ", "<", "d", "i", "v", " ", "i", "d", "=", "\"", "r", "e", "d", "o", "c", "-", "c", "o", "n", "t", "a", "i", "n", "e", "r", "\"", ">", "<", "/", "d", "i", "v", ">", "\n">>
  \* 30:     <script nonce='[[nonce]]' src="https://unpkg.com/redoc@2.5.2/bundles/redoc.standalone.js"> </script>
  \o <<" ", " ", " ", " ", "<", "s", "c", "r", "i", "p", "t", " ", "n", "o", "n", "c", "e", "=", "'", "[", "[", "n", "o", "n", "c", "e", "]", "]", "'", " ", "s", "r", "c", "=", "\"", "h", "t", "t", "p", "s", ":", "/", "/", "u", "n", "p", "k", "g", ".", "c", "o", "m", "/", "r", "e", "d", "o", "c", "@", "2", ".", "5", ".", "2", "/", "b", "u", "n", "d", "l", "e", "s", "/", "r", "e", "d", "o", "c", ".", "s", "t", "a", "n", "d", "a", "l", "o", "n", "e", ".", "j", "s", "\"", ">", " ", "<", "/", "s", "c", "r", "i", "p", "t", ">", "\n">>
  \* 31:   </body>
  \o <<" ", " ", "<", "/", "b", "o", "d", "y", ">", "\n">>
  \* 32:   <script>
  \o <<" ", " ", "<", "s", "c", "r", "i", "p", "t", ">", "\n">>
  \* 33:     Redoc.init(
  \o <<" ", " ", " ", " ", "R", "e", "d", "o", "c", ".", "i", "n", "i", "t", "(", "\n">>
  \* 34:       "[[spec-url]]",
  \o <<" ", " ", " ", " ", " ", " ", "\"", "[", "[", "s", "p", "e", "c", "-", "u", "r", "l", "]", "]", "\"", ",", "\n">>
  \* 35:       [[options]],
  \o <<" ", " ", " ", " ", " ", " ", "[", "[", "o", "p", "t", "i", "o", "n", "s", "]", "]", ",", "\n">>
  \* 36:       document.getElementById("redoc-container")
  \o <<" ", " ", " ", " ", " ", " ", "d", "o", "c", "u", "m", "e", "n", "t", ".", "g", "e", "t", "E", "l", "e", "m", "e", "n", "t", "B", "y", "I", "d", "(", "\"", "r", "e", "d", "o", "c", "-", "c", "o", "n", "t", "a", "i", "n", "e", "r", "\"", ")", "\n">>
  \* 37:     );
  \o <<" ", " ", " ", " ", ")", ";", "\n">>
  \* 38:   </script>
  \o <<" ", " ", "<", "/", "s", "c", "r", "i", "p", "t", ">", "\n">>
  \* 39: </html>
  \o <<"<", "/", "h", "t", "m", "l", ">">>

----------------------------------------------------------------------------
(* Strings.                                                                *)

Min(S) == CHOOSE i \in S : \A j \in S : i <= j

RECURSIVE Flatten(_)
Flatten(ss) == IF ss = <<>> THEN <<>> ELSE Head(ss) \o Flatten(Tail(ss))

\* The start indices (1-based) of the occurrences of p in s.
Occurrences(s, p) ==
  {i \in 1..(Len(s) - Len(p) + 1) :
     s[i] = p[1] /\ SubSeq(s, i, i + Len(p) - 1) = p}

Count(s, p) == Cardinality(Occurrences(s, p))

Contains(s, p) == Occurrences(s, p) # {}

\* String.prototype.indexOf, 1-based; 0 when p does not occur.
IndexOf(s, p) ==
  LET occ == Occurrences(s, p) IN IF occ = {} THEN 0 ELSE Min(occ)

\* s.replace(/c/g, r) for a one-character pattern c and a replacement r
\* that holds no "$".
RECURSIVE ReplaceAllChar(_, _, _)
ReplaceAllChar(s, c, r) ==
  IF s = <<>> THEN <<>>
  ELSE (IF Head(s) = c THEN r ELSE <<Head(s)>>) \o ReplaceAllChar(Tail(s), c, r)

\* c.charCodeAt(0) for the characters of the model: the control characters
\* have their code, every other character of the model is above 0x1F.
CharCode(c) ==
  CASE c = "\t" -> 9
    [] c = "\n" -> 10
    [] c = "\r" -> 13
    [] c = Ctl01 -> 1
    [] c = Ctl1F -> 31
    [] OTHER -> 32

HexDigit(n) ==
  <<"0", "1", "2", "3", "4", "5", "6", "7", "8", "9",
    "a", "b", "c", "d", "e", "f">>[n + 1]

\* code.toString(16) for code <= 0xFF
ToString16(code) ==
  IF code < 16 THEN <<HexDigit(code)>>
  ELSE <<HexDigit(code \div 16), HexDigit(code % 16)>>

\* The letter case folding of a case-insensitive regular expression, on the
\* letters of "script".
ToLower(c) ==
  CASE c = "S" -> "s"
    [] c = "C" -> "c"
    [] c = "R" -> "r"
    [] c = "I" -> "i"
    [] c = "P" -> "p"
    [] c = "T" -> "t"
    [] OTHER -> c

LowerStr(s) == [i \in 1..Len(s) |-> ToLower(s[i])]

----------------------------------------------------------------------------
(* The context escapers.                                                   *)

\* escape.ts, escapeJsString: the loop over the remaining control characters
RECURSIVE EscapeControlChars(_)
EscapeControlChars(out) ==
  IF out = <<>> THEN <<>>
  ELSE LET c == Head(out)
           code == CharCode(c)
       IN (IF code <= 31
           THEN (IF code <= 15
                 THEN <<"\\", "x", "0">> \o ToString16(code)
                 ELSE <<"\\", "x">> \o ToString16(code))
           ELSE <<c>>)
          \o EscapeControlChars(Tail(out))

\* The chain of escapeJsString with the backslash replaced last.
escapeJsString_BackslashLast(s) ==
  LET r1 == ReplaceAllChar(s, "\"", <<"\\", "\"">>)
      r2 == ReplaceAllChar(r1, "\n", <<"\\", "n">>)
      r3 == ReplaceAllChar(r2, "\r", <<"\\", "r">>)
      r4 == ReplaceAllChar(r3, "\t", <<"\\", "t">>)
      out == ReplaceAllChar(r4, "\\", <<"\\", "\\">>)
  IN EscapeControlChars(out)

\* escape.ts, escapeJsString
escapeJsString(s) ==
  LET r1 == ReplaceAllChar(s, "\\", <<"\\", "\\">>)
      r2 == ReplaceAllChar(r1, "\"", <<"\\", "\"">>)
      r3 == ReplaceAllChar(r2, "\n", <<"\\", "n">>)
      r4 == ReplaceAllChar(r3, "\r", <<"\\", "r">>)
      out == ReplaceAllChar(r4, "\t", <<"\\", "t">>)
  IN EscapeControlChars(out)

ScriptClose == <<"<", "/", "s", "c", "r", "i", "p", "t", ">">>
ScriptCloseEscaped ==
  <<"\\", "u", "0", "0", "3", "c", "/", "s", "c", "r", "i", "p", "t", ">">>

\* s.replace(/<\/script>/gi, '\\u003c/script>'): the matches are found left
\* to right, each search resuming after the previous match.
RECURSIVE ReplaceScriptCloseGI(_)
ReplaceScriptCloseGI(s) ==
  IF Len(s) < Len(ScriptClose) THEN s
  ELSE IF LowerStr(SubSeq(s, 1, Len(ScriptClose))) = ScriptClose
       THEN ScriptCloseEscaped
            \o ReplaceScriptCloseGI(SubSeq(s, Len(ScriptClose) + 1, Len(s)))
       ELSE <<Head(s)>> \o ReplaceScriptCloseGI(Tail(s))

\* The same replacement without the i flag: only the lower-case spelling.
RECURSIVE ReplaceScriptCloseG(_)
ReplaceScriptCloseG(s) ==
  IF Len(s) < Len(ScriptClose) THEN s
  ELSE IF SubSeq(s, 1, Len(ScriptClose)) = ScriptClose
       THEN ScriptCloseEscaped
            \o ReplaceScriptCloseG(SubSeq(s, Len(ScriptClose) + 1, Len(s)))
       ELSE <<Head(s)>> \o ReplaceScriptCloseG(Tail(s))

escapeScriptTagContent_CaseSensitive(s) == ReplaceScriptCloseG(s)

\* escape.ts, escapeScriptTagContent
escapeScriptTagContent(s) == ReplaceScriptCloseGI(s)

\* xss.escapeHtml (package xss, called at redoc-html-template.ts line 49):
\* html.replace(/</g, "&lt;").replace(/>/g, "&gt;")
xssEscapeHtml(s) ==
  ReplaceAllChar(ReplaceAllChar(s, "<", <<"&", "l", "t", ";">>),
                 ">", <<"&", "g", "t", ";">>)

\* xss.escapeAttrValue (package xss, called at line 51): escapeQuote, which
\* is str.replace(/"/g, "&quot;"), then escapeHtml.
xssEscapeAttrValue(s) ==
  xssEscapeHtml(ReplaceAllChar(s, "\"", <<"&", "q", "u", "o", "t", ";">>))

\* JSON.stringify of a string (QuoteJSONString)
RECURSIVE QuoteJSONChars(_)
QuoteJSONChars(s) ==
  IF s = <<>> THEN <<>>
  ELSE LET c == Head(s) IN
       (CASE c = "\"" -> <<"\\", "\"">>
          [] c = "\\" -> <<"\\", "\\">>
          [] c = "\n" -> <<"\\", "n">>
          [] c = "\r" -> <<"\\", "r">>
          [] c = "\t" -> <<"\\", "t">>
          [] CharCode(c) <= 31 /\ c \notin {"\n", "\r", "\t"} ->
               <<"\\", "u", "0", "0">>
               \o (IF CharCode(c) < 16 THEN <<"0">> ELSE <<>>)
               \o ToString16(CharCode(c))
          [] OTHER -> <<c>>)
       \o QuoteJSONChars(Tail(s))

QuoteJSONString(s) == <<"\"">> \o QuoteJSONChars(s) \o <<"\"">>

\* JSON.stringify of an object of string-valued properties, given as the
\* sequence of its [key, value] properties in insertion order.
RECURSIVE JSONProperties(_)
JSONProperties(props) ==
  IF props = <<>> THEN <<>>
  ELSE QuoteJSONString(Head(props).key) \o <<":">>
       \o QuoteJSONString(Head(props).value)
       \o (IF Len(props) > 1 THEN <<",">> ELSE <<>>)
       \o JSONProperties(Tail(props))

JSONStringify(obj) == <<"{">> \o JSONProperties(obj) \o <<"}">>

\* The title escaped with "&" replaced last instead of first.
SafeTitle_AmpersandLast(title) ==
  ReplaceAllChar(xssEscapeHtml(title), "&", <<"&", "a", "m", "p", ";">>)

\* redoc-html-template.ts line 49
SafeTitle(title) ==
  xssEscapeHtml(ReplaceAllChar(title, "&", <<"&", "a", "m", "p", ";">>))

\* line 50
SafeSpecUrl(specUrl) == escapeScriptTagContent(escapeJsString(specUrl))

\* line 51
SafeNonce(nonce) ==
  xssEscapeAttrValue(ReplaceAllChar(nonce, "'", <<"&", "#", "3", "9", ";">>))

\* line 52
SafeOptions(redocOptions) == escapeScriptTagContent(JSONStringify(redocOptions))

----------------------------------------------------------------------------
(* String.prototype.replace with a string pattern.                         *)

\* GetSubstitution: the expansion of the replacement string for a match of
\* `matched` at `position` of `str`; with a string pattern there are no
\* captures, so only $$, $&, $` and $' are replacement patterns.
RECURSIVE GetSubstitution(_, _, _, _)
GetSubstitution(matched, str, position, replacement) ==
  IF replacement = <<>> THEN <<>>
  ELSE IF Head(replacement) = "$" /\ Len(replacement) >= 2
            /\ replacement[2] \in {"$", "&", Grave, "'"}
       THEN LET c == replacement[2]
                rest == SubSeq(replacement, 3, Len(replacement))
            IN (CASE c = "$" -> <<"$">>
                  [] c = "&" -> matched
                  [] c = Grave -> SubSeq(str, 1, position - 1)
                  [] c = "'" -> SubSeq(str, position + Len(matched), Len(str)))
               \o GetSubstitution(matched, str, position, rest)
       ELSE <<Head(replacement)>>
            \o GetSubstitution(matched, str, position, Tail(replacement))

\* str.replace(searchValue, replaceValue) for a string searchValue: the
\* first occurrence only. result is the string returned, inserted the text
\* put in place of the occurrence.
ReplaceFirst(str, searchValue, replaceValue) ==
  LET pos == IndexOf(str, searchValue)
      ins == GetSubstitution(searchValue, str, pos, replaceValue)
  IN IF pos = 0 THEN [result |-> str, inserted |-> <<>>]
     ELSE [result |-> SubSeq(str, 1, pos - 1) \o ins
                      \o SubSeq(str, pos + Len(searchValue), Len(str)),
           inserted |-> ins]

StringReplace(str, searchValue, replaceValue) ==
  ReplaceFirst(str, searchValue, replaceValue).result

PhTitle == <<"[", "[", "t", "i", "t", "l", "e", "]", "]">>
PhSpecUrl == <<"[", "[", "s", "p", "e", "c", "-", "u", "r", "l", "]", "]">>
PhNonce == <<"[", "[", "n", "o", "n", "c", "e", "]", "]">>
PhOptions == <<"[", "[", "o", "p", "t", "i", "o", "n", "s", "]", "]">>

----------------------------------------------------------------------------
(* The inputs of a render call.                                            *)

ScriptCloseUpper == <<"<", "/", "S", "C", "R", "I", "P", "T", ">">>
ScriptCloseMixed == <<"<", "/", "S", "c", "R", "i", "p", "T", ">">>

\* Each atom is a piece of input text; a value of the call is a
\* concatenation of atoms.
Atoms ==
  { <<"$">>, <<"&">>, <<"'">>, <<Grave>>, <<"<">>, <<"\"">>, PhNonce,
    ScriptClose, ScriptCloseMixed }

Strings(atoms, n) == {Flatten(a) : a \in [1..n -> atoms]}

\* redocOptions: an object of string-valued properties, or omitted
OptionObjects(n) ==
  IF n = 0 THEN {Undefined, <<>>}
  ELSE {<<[key |-> <<"k">>, value |-> v]>> : v \in Strings(Atoms, n)}

Nonces(n) == IF n = 0 THEN {Undefined, <<>>} ELSE Strings(Atoms, n)

\* destructuring defaults of line 47 (and 83)
NonceOf(c) == IF c.nonce = Undefined THEN <<>> ELSE c.nonce
RedocOptionsOf(c) == IF c.redocOptions = Undefined THEN <<>> ELSE c.redocOptions
PluginsOf(c) == IF "plugins" \in DOMAIN c THEN c.plugins ELSE <<>>

----------------------------------------------------------------------------
(* The template renderer.                                                  *)

NoSafe == [title |-> <<>>, specUrl |-> <<>>, nonce |-> <<>>, options |-> <<>>]

\* lines 49-52
Escaped(c) ==
  [title |-> SafeTitle(c.title),
   specUrl |-> SafeSpecUrl(c.specUrl),
   nonce |-> SafeNonce(NonceOf(c)),
   options |-> SafeOptions(RedocOptionsOf(c))]

\* lines 54-58: the chain of four replace calls, in the order of the code;
\* html is the document, placed the text each replace call inserted.
FillTemplate(s) ==
  LET r1 == ReplaceFirst(html, PhTitle, s.title)
      r2 == ReplaceFirst(r1.result, PhSpecUrl, s.specUrl)
      r3 == ReplaceFirst(r2.result, PhNonce, s.nonce)
      r4 == ReplaceFirst(r3.result, PhOptions, s.options)
  IN [html |-> r4.result,
      placed |-> [title |-> r1.inserted, specUrl |-> r2.inserted,
                  nonce |-> r3.inserted, options |-> r4.inserted]]

\* redocHtml, lines 47-58: up to the first await
RedocHtml(c) ==
  /\ pc = "Initial"
  /\ pc' = "TemplateFilled"
  /\ fn' = "redocHtml"
  /\ cfg' = c
  /\ safe' = Escaped(c)
  /\ LET filled == FillTemplate(Escaped(c))
     IN /\ placed' = filled.placed
        /\ renderedHtml' = filled.html
  /\ UNCHANGED <<result, escVars, mwVars, cacheVars, regVars, metricsVars, callVars, hookVars>>

\* A document stamped with the number of the calls made before.
ReturnHtml_Stamped ==
  /\ pc = "TemplateFilled"
  /\ Len(PluginsOf(cfg)) = 0
  /\ pc' = "Done"
  /\ result' = renderedHtml \o <<HexDigit(Len(history))>>
  /\ UNCHANGED <<fn, cfg, safe, placed, renderedHtml, escVars, mwVars,
                 cacheVars, regVars, metricsVars, callVars, hookVars>>

\* redocHtml, lines 60-70, for a call without plugins: both hook stages are
\* skipped and the document is returned
ReturnHtml ==
  /\ pc = "TemplateFilled"
  /\ Len(PluginsOf(cfg)) = 0
  /\ pc' = "Done"
  /\ result' = renderedHtml
  /\ UNCHANGED <<fn, cfg, safe, placed, renderedHtml, escVars, mwVars, cacheVars, regVars, metricsVars, callVars,
                 hookVars>>

\* redocHtml, line 49, for options without a title: title.replace throws a
\* TypeError and the promise of the call rejects
RedocHtmlThrows(c) ==
  /\ pc = "Initial"
  /\ "title" \notin DOMAIN c
  /\ pc' = "Rejected"
  /\ fn' = "redocHtml"
  /\ cfg' = c
  /\ UNCHANGED <<safe, placed, renderedHtml, result, escVars, mwVars, cacheVars, regVars, metricsVars, callVars, hookVars>>

\* A redocHtmlSync that places the title as it was given.
RedocHtmlSync_RawTitle(c) ==
  /\ pc = "Initial"
  /\ pc' = "Done"
  /\ fn' = "redocHtmlSync"
  /\ cfg' = c
  /\ safe' = [Escaped(c) EXCEPT !.title = c.title]
  /\ LET filled == FillTemplate([Escaped(c) EXCEPT !.title = c.title])
     IN /\ placed' = filled.placed
        /\ renderedHtml' = filled.html
        /\ result' = filled.html
  /\ UNCHANGED <<escVars, mwVars, cacheVars, regVars, metricsVars, callVars, hookVars>>

\* redocHtmlSync, lines 83-94
RedocHtmlSync(c) ==
  /\ pc = "Initial"
  /\ pc' = "Done"
  /\ fn' = "redocHtmlSync"
  /\ cfg' = c
  /\ safe' = Escaped(c)
  /\ LET filled == FillTemplate(Escaped(c))
     IN /\ placed' = filled.placed
        /\ renderedHtml' = filled.html
        /\ result' = filled.html
  /\ UNCHANGED <<escVars, mwVars, cacheVars, regVars, metricsVars, callVars, hookVars>>

\* The options objects of the model: MaxAtoms atoms at most in all.
Call(Op(_)) ==
  \E n1 \in 0..MaxAtoms :
    \E n2 \in 0..(MaxAtoms - n1) :
      \E n3 \in 0..(MaxAtoms - n1 - n2) :
        \E n4 \in 0..(MaxAtoms - n1 - n2 - n3) :
          \E t \in Strings(Atoms, n1), u \in Strings(Atoms, n2),
             n \in Nonces(n3), o \in OptionObjects(n4) :
            Op([title |-> t, specUrl |-> u, nonce |-> n, redocOptions |-> o])

----------------------------------------------------------------------------
(* One application of a context escaper to an untrusted string.            *)

\* "</scr</script>ipt>": an occurrence nested in the pieces of another
ScriptCloseNested ==
  <<"<", "/", "s", "c", "r">> \o ScriptClose \o <<"i", "p", "t", ">">>

EscAtoms ==
  { <<"a">>, <<"&">>, <<"<">>, <<">">>, <<"\"">>, <<"'">>, <<"\\">>,
    <<"$">>, <<"\n">>, <<"\r">>, <<"\t">>, <<Ctl01>>, <<Ctl1F>>,
    ScriptClose, ScriptCloseUpper, ScriptCloseMixed, ScriptCloseNested }

EscInputs == UNION {Strings(EscAtoms, n) : n \in 0..MaxLen}

Apply(name, out) ==
  /\ escFn = "none"
  /\ escFn' = name
  /\ escOut' = out
  /\ UNCHANGED <<escIn, renderVars, hookVars, mwVars, cacheVars, regVars, metricsVars, callVars>>

\* escape.ts, escapeJsString(s)
ApplyEscapeJsString == Apply("escapeJsString", escapeJsString(escIn))

\* escape.ts, escapeScriptTagContent(s)
ApplyEscapeScriptTagContent ==
  Apply("escapeScriptTagContent", escapeScriptTagContent(escIn))

\* redoc-html-template.ts line 49, title = escIn
ApplySafeTitle == Apply("safeTitle", SafeTitle(escIn))

\* line 50, specUrl = escIn
ApplySafeSpecUrl == Apply("safeSpecUrl", SafeSpecUrl(escIn))

\* line 51, nonce = escIn
ApplySafeNonce == Apply("safeNonce", SafeNonce(escIn))

\* line 52, redocOptions = { k: escIn }
OptionsWith(v) == <<[key |-> <<"k">>, value |-> v]>>
ApplySafeOptions == Apply("safeOptions", SafeOptions(OptionsWith(escIn)))

----------------------------------------------------------------------------
(* The render-hook pipeline (hooks.ts): executeBeforeRenderHooks and       *)
(* executeAfterRenderHooks.  In this part an HTML value is a sequence of   *)
(* pieces: the HTML given to the pipeline and the piece each hook appends. *)

Pending == <<"pending">>

\* What a plugin's hook of the executing kind does when it is called:
\*   absent    the plugin has no such hook
\*   returns   a synchronous hook that returns html + its piece
\*   resolves  an async hook whose promise resolves with html + its piece
\*   throws    a synchronous hook that throws
\*   rejects   an async hook whose promise rejects
HookBehaviours == {"absent", "returns", "resolves", "throws", "rejects"}

PluginNames == <<"A", "B", "C", "D">>

\* The plugin arrays of the model: plugin i is named PluginNames[i].
PluginArrays ==
  UNION {{[i \in 1..n |-> [name |-> PluginNames[i], hook |-> b[i]]] :
            b \in [1..n -> HookBehaviours]} : n \in 0..MaxPlugins}

\* The piece the hook of plugin p appends, as in `${html}-plugin1`.
Piece(p) == <<"-", p.name>>

\* line 200 (225): the value a hook that completes gives
HookValue(p, currentHtml) == currentHtml \o Piece(p)

\* A catch block that logs and returns nothing.
OnHookError_NoValue(currentHtml) == <<>>

\* lines 201-205 (226-230): the catch block logs and returns currentHtml
OnHookError(currentHtml) == currentHtml

\* line 197 (222): currentHtml = await previousPromise; the promise of the
\* first callback is Promise.resolve(html)
CurrentHtml(i) == IF i = 1 THEN hhtml ELSE hout[i - 1]

\* A callback that drops the await of line 197 runs as soon as reduce has
\* created it.
CanRun_NoAwait(i) == hstatus[i] = "waiting"

\* line 197 (222): the callback of plugin i goes on once the promise of the
\* callback before it has resolved
CanRun(i) ==
  /\ hstatus[i] = "waiting"
  /\ i > 1 => hstatus[i - 1] = "settled"

\* lines 190-196 and 219-221: reduce creates one suspended callback per
\* plugin
StartHooks(kind, html0, plugins) ==
  /\ hpc' = "Running"
  /\ hkind' = kind
  /\ hhtml' = html0
  /\ hplugins' = plugins
  /\ hstatus' = [i \in 1..Len(plugins) |-> "waiting"]
  /\ hout' = [i \in 1..Len(plugins) |-> Pending]
  /\ hresult' = Pending
  /\ UNCHANGED hcalls

\* An executor called on its own.
ExecuteHooks(kind, html0, plugins) ==
  /\ hpc = "Initial"
  /\ StartHooks(kind, html0, plugins)
  /\ UNCHANGED <<renderVars, escVars, mwVars, cacheVars, regVars, metricsVars, callVars>>

executeBeforeRenderHooks(html0, plugins) ==
  ExecuteHooks("beforeRender", html0, plugins)

executeAfterRenderHooks(html0, plugins) ==
  ExecuteHooks("afterRender", html0, plugins)

\* The arguments of a hook call: beforeRender(currentHtml, options) at line
\* 200, afterRender(currentHtml) at line 225.
HookCall(i) ==
  [hook |-> hkind,
   plugin |-> i,
   html |-> CurrentHtml(i),
   options |-> IF hkind = "beforeRender" THEN "options" ELSE Undefined]

\* lines 198 and 207: a plugin without the hook passes currentHtml on
PassThrough(i) ==
  /\ hpc = "Running"
  /\ CanRun(i)
  /\ hplugins[i].hook = "absent"
  /\ hstatus' = [hstatus EXCEPT ![i] = "settled"]
  /\ hout' = [hout EXCEPT ![i] = CurrentHtml(i)]
  /\ UNCHANGED <<hpc, hkind, hhtml, hplugins, hcalls, hresult,
                 renderVars, escVars, mwVars, cacheVars, regVars, metricsVars, callVars>>

\* lines 198-205: a synchronous hook is called and returns or throws
CallSyncHook(i) ==
  /\ hpc = "Running"
  /\ CanRun(i)
  /\ hplugins[i].hook \in {"returns", "throws"}
  /\ hcalls' = Append(hcalls, HookCall(i))
  /\ hstatus' = [hstatus EXCEPT ![i] = "settled"]
  /\ hout' = [hout EXCEPT ![i] =
                IF hplugins[i].hook = "returns"
                THEN HookValue(hplugins[i], CurrentHtml(i))
                ELSE OnHookError(CurrentHtml(i))]
  /\ UNCHANGED <<hpc, hkind, hhtml, hplugins, hresult, renderVars, escVars,
                 mwVars, cacheVars, regVars, metricsVars, callVars>>

\* lines 198-200: an async hook is called; the callback awaits its promise
CallAsyncHook(i) ==
  /\ hpc = "Running"
  /\ CanRun(i)
  /\ hplugins[i].hook \in {"resolves", "rejects"}
  /\ hcalls' = Append(hcalls, HookCall(i))
  /\ hstatus' = [hstatus EXCEPT ![i] = "running"]
  /\ UNCHANGED <<hpc, hkind, hhtml, hplugins, hout, hresult,
                 renderVars, escVars, mwVars, cacheVars, regVars, metricsVars, callVars>>

\* lines 200-205: the promise of the hook settles
HookSettles(i) ==
  /\ hpc = "Running"
  /\ hstatus[i] = "running"
  /\ hstatus' = [hstatus EXCEPT ![i] = "settled"]
  /\ hout' = [hout EXCEPT ![i] =
                IF hplugins[i].hook = "resolves"
                THEN HookValue(hplugins[i], CurrentHtml(i))
                ELSE OnHookError(CurrentHtml(i))]
  /\ UNCHANGED <<hpc, hkind, hhtml, hplugins, hcalls, hresult,
                 renderVars, escVars, mwVars, cacheVars, regVars, metricsVars, callVars>>

\* lines 196 and 208-210: the promise reduce returned resolves, and the
\* executor returns its value
HooksReturn ==
  /\ hpc = "Running"
  /\ \A i \in 1..Len(hplugins) : hstatus[i] = "settled"
  /\ hpc' = "Done"
  /\ hresult' = CurrentHtml(Len(hplugins) + 1)
  /\ UNCHANGED <<hkind, hhtml, hplugins, hstatus, hout, hcalls,
                 renderVars, escVars, mwVars, cacheVars, regVars, metricsVars, callVars>>

----------------------------------------------------------------------------
(* A render call with plugins (redocHtml, lines 60-70).                    *)

\* What the beforeRender hook and the afterRender hook of one plugin do.
RenderHookPairs ==
  { <<"absent", "returns">>, <<"returns", "absent">>,
    <<"resolves", "throws">>, <<"throws", "resolves">>,
    <<"rejects", "rejects">>, <<"returns", "resolves">> }

RenderPluginArrays ==
  UNION {{[i \in 1..n |-> [name |-> PluginNames[i],
                           beforeRender |-> b[i][1],
                           afterRender |-> b[i][2]]] :
            b \in [1..n -> RenderHookPairs]} : n \in 0..MaxPlugins}

\* The options of the render calls with plugins.
RenderCalls ==
  {[title |-> t, specUrl |-> <<"/", "s">>, nonce |-> Undefined,
    redocOptions |-> Undefined, plugins |-> ps] :
     t \in {<<"T">>, <<"<">>}, ps \in RenderPluginArrays}

\* lines 198 and 223: plugin.hooks.beforeRender, plugin.hooks.afterRender
HooksOfKind(kind, plugins) ==
  [i \in 1..Len(plugins) |->
     [name |-> plugins[i].name, hook |-> plugins[i][kind]]]

\* line 62: renderedHtml = await executeBeforeRenderHooks(...), the html
\* line 67 gives to executeAfterRenderHooks; the stage keeps the template
\* as it was filled.
AfterRenderInput_Template == renderedHtml

\* line 62: renderedHtml = await executeBeforeRenderHooks(...), the html
\* line 67 gives to executeAfterRenderHooks
AfterRenderInput == hresult

\* lines 61-62: executeBeforeRenderHooks is called
BeforeRenderStage ==
  /\ pc = "TemplateFilled"
  /\ Len(PluginsOf(cfg)) > 0
  /\ pc' = "BeforeHooksRunning"
  /\ StartHooks("beforeRender", renderedHtml,
                HooksOfKind("beforeRender", PluginsOf(cfg)))
  /\ UNCHANGED <<fn, cfg, safe, placed, renderedHtml, result, escVars, mwVars, cacheVars, regVars, metricsVars, callVars>>

\* lines 62 and 66-67: executeBeforeRenderHooks has resolved, its value is
\* assigned and executeAfterRenderHooks is called
AfterRenderStage ==
  /\ pc = "BeforeHooksRunning"
  /\ hpc = "Done"
  /\ pc' = "AfterHooksRunning"
  /\ renderedHtml' = AfterRenderInput
  /\ StartHooks("afterRender", AfterRenderInput,
                HooksOfKind("afterRender", PluginsOf(cfg)))
  /\ UNCHANGED <<fn, cfg, safe, placed, result, escVars, mwVars, cacheVars, regVars, metricsVars, callVars>>

\* A call that rejects when a hook of either kind has failed.
ReturnRendered_RejectsOnFailure ==
  /\ pc = "AfterHooksRunning"
  /\ hpc = "Done"
  /\ IF \E i \in 1..Len(PluginsOf(cfg)) :
          \/ PluginsOf(cfg)[i].beforeRender \in {"throws", "rejects"}
          \/ PluginsOf(cfg)[i].afterRender \in {"throws", "rejects"}
     THEN pc' = "Rejected" /\ UNCHANGED <<renderedHtml, result>>
     ELSE pc' = "Done" /\ renderedHtml' = hresult /\ result' = hresult
  /\ UNCHANGED <<fn, cfg, safe, placed, escVars, mwVars, cacheVars, regVars, metricsVars, callVars, hookVars>>

\* lines 67 and 70: executeAfterRenderHooks has resolved, its value is
\* assigned and returned
ReturnRendered ==
  /\ pc = "AfterHooksRunning"
  /\ hpc = "Done"
  /\ pc' = "Done"
  /\ renderedHtml' = hresult
  /\ result' = hresult
  /\ UNCHANGED <<fn, cfg, safe, placed, escVars, mwVars, cacheVars, regVars, metricsVars, callVars, hookVars>>

\* The steps of a call once it is made.
RenderStep ==
  \/ ReturnHtml
  \/ BeforeRenderStage
  \/ \E i \in 1..Len(hplugins) : PassThrough(i)
  \/ \E i \in 1..Len(hplugins) : CallSyncHook(i)
  \/ \E i \in 1..Len(hplugins) : CallAsyncHook(i)
  \/ \E i \in 1..Len(hplugins) : HookSettles(i)
  \/ HooksReturn
  \/ AfterRenderStage
  \/ ReturnRendered

----------------------------------------------------------------------------
(* The auth plugin (plugins/auth/index.ts).                                *)

\* The printable ASCII characters, from code 32 to code 126.
Ascii ==
  <<" ", "!", "\"", "#", "$", "%", "&", "'", "(", ")", "*", "+", ",", "-",
    ".", "/", "0", "1", "2", "3", "4", "5", "6", "7", "8", "9", ":", ";",
    "<", "=", ">", "?", "@", "A", "B", "C", "D", "E", "F", "G", "H", "I",
    "J", "K", "L", "M", "N", "O", "P", "Q", "R", "S", "T", "U", "V", "W",
    "X", "Y", "Z", "[", "\\", "]", "^", "_", Grave, "a", "b", "c", "d",
    "e", "f", "g", "h", "i", "j", "k", "l", "m", "n", "o", "p", "q", "r",
    "s", "t", "u", "v", "w", "x", "y", "z", "{", "|", "}", "~">>

\* The byte of a character of the model (all are printable ASCII).
ByteOf(c) == 31 + CHOOSE i \in 1..Len(Ascii) : Ascii[i] = c

\* Buffer.toString('utf8') on one byte; the bytes the model decodes are
\* printable ASCII, any other byte is shown as one character that no
\* credential holds.
CharOf(b) == IF b \in 32..126 THEN Ascii[b - 31] ELSE "U+FFFD"

Base64Alphabet ==
  <<"A", "B", "C", "D", "E", "F", "G", "H", "I", "J", "K", "L", "M", "N",
    "O", "P", "Q", "R", "S", "T", "U", "V", "W", "X", "Y", "Z", "a", "b",
    "c", "d", "e", "f", "g", "h", "i", "j", "k", "l", "m", "n", "o", "p",
    "q", "r", "s", "t", "u", "v", "w", "x", "y", "z", "0", "1", "2", "3",
    "4", "5", "6", "7", "8", "9", "+", "/">>

Base64Char(v) == Base64Alphabet[v + 1]

\* The six bits of a base64 character, -1 for any other character; the
\* decoder takes "-" and "_" of the URL alphabet for "+" and "/".
Base64Value(c) ==
  IF c = "-" THEN 62
  ELSE IF c = "_" THEN 63
  ELSE IF \E i \in 1..64 : Base64Alphabet[i] = c
  THEN (CHOOSE i \in 1..64 : Base64Alphabet[i] = c) - 1
  ELSE -1

\* Buffer.from(s).toString('base64'), what a client sends: three bytes give
\* four characters, a last group of one or two bytes is padded with "=".
RECURSIVE Base64Encode(_)
Base64Encode(s) ==
  IF Len(s) = 0 THEN <<>>
  ELSE IF Len(s) = 1 THEN
    LET n == ByteOf(s[1]) * 16
    IN <<Base64Char(n \div 64), Base64Char(n % 64), "=", "=">>
  ELSE IF Len(s) = 2 THEN
    LET n == (ByteOf(s[1]) * 256 + ByteOf(s[2])) * 4
    IN <<Base64Char(n \div 4096), Base64Char((n \div 64) % 64),
         Base64Char(n % 64), "=">>
  ELSE
    LET n == ByteOf(s[1]) * 65536 + ByteOf(s[2]) * 256 + ByteOf(s[3])
    IN <<Base64Char(n \div 262144), Base64Char((n \div 4096) % 64),
         Base64Char((n \div 64) % 64), Base64Char(n % 64)>>
       \o Base64Encode(SubSeq(s, 4, Len(s)))

Pow2(k) == 2 ^ k

\* line 36, Buffer.from(s, 'base64').toString('utf8'): the characters are
\* read in order, six bits each, and a byte is written whenever eight bits
\* are there; a character outside the alphabet is passed over and "=" ends
\* the text.  acc holds the nbits bits not yet written.
RECURSIVE Base64DecodeFrom(_, _, _)
Base64DecodeFrom(s, acc, nbits) ==
  IF s = <<>> \/ Head(s) = "=" THEN <<>>
  ELSE LET v == Base64Value(Head(s))
       IN IF v < 0 THEN Base64DecodeFrom(Tail(s), acc, nbits)
          ELSE LET a == acc * 64 + v
                   n == nbits + 6
               IN IF n >= 8
                  THEN <<CharOf(a \div Pow2(n - 8))>>
                       \o Base64DecodeFrom(Tail(s), a % Pow2(n - 8), n - 8)
                  ELSE Base64DecodeFrom(Tail(s), a, n)

Base64Decode(s) == Base64DecodeFrom(s, 0, 0)

\* String.prototype.split with a one-character separator: the pieces between
\* the separators, one piece for a string without the separator.
RECURSIVE Split(_, _)
Split(s, sep) ==
  LET i == IndexOf(s, <<sep>>)
  IN IF i = 0 THEN <<s>>
     ELSE <<SubSeq(s, 1, i - 1)>> \o Split(SubSeq(s, i + 1, Len(s)), sep)

\* A string-valued property or variable that is undefined.
NoValue == <<Undefined>>

\* Array destructuring and indexing past the end give undefined.
At(parts, k) == IF k <= Len(parts) THEN parts[k] ELSE NoValue

BasicWord == <<"B", "a", "s", "i", "c">>
BearerWord == <<"B", "e", "a", "r", "e", "r">>
CustomWord == <<"C", "u", "s", "t", "o", "m">>

\* lines 27-42; null is the record with isNull
parseBasicAuth(authHeader) ==
  LET parts == Split(authHeader, " ")
  IN IF Len(parts) # 2 \/ parts[1] # BasicWord
     THEN [isNull |-> TRUE, username |-> NoValue, password |-> NoValue]
     ELSE LET credentials == Base64Decode(parts[2])
              pieces == Split(credentials, ":")
          IN [isNull |-> FALSE,
              username |-> At(pieces, 1),
              password |-> At(pieces, 2)]

\* lines 47-53; null is NoValue
parseBearerAuth(authHeader) ==
  LET parts == Split(authHeader, " ")
  IN IF Len(parts) # 2 \/ parts[1] # BearerWord
     THEN NoValue
     ELSE parts[2]

\* lines 58-61
sendUnauthorized(response, realm, type) ==
  [response EXCEPT
     !.wwwAuthenticate =
        type \o <<" ", "r", "e", "a", "l", "m", "=", "\"">> \o realm
             \o <<"\"">>,
     !.status = 401,
     !.body = <<"Unauthorized">>,
     !.sent = TRUE]

RealmDefault == <<"R", "e", "D", "o", "c">>

\* lines 69-77: the defaults of the options; an option left out is not in
\* the record.
AuthOption(options, name, default) ==
  IF name \in DOMAIN options THEN options[name] ELSE default

AuthDefaults(options) ==
  [type |-> AuthOption(options, "type", "basic"),
   username |-> AuthOption(options, "username", <<>>),
   password |-> AuthOption(options, "password", <<>>),
   token |-> AuthOption(options, "token", <<>>),
   customAuth |-> AuthOption(options, "customAuth", "none"),
   realm |-> AuthOption(options, "realm", RealmDefault),
   enabled |-> AuthOption(options, "enabled", TRUE)]

\* What the caller-supplied customAuth does when it is called:
\*   returnsTrue, returnsFalse    a synchronous predicate
\*   throws                       a synchronous predicate that throws
\*   resolvesTrue, resolvesFalse  a predicate that returns a promise
\*   rejects                      a predicate whose promise rejects
CustomAuthBehaviours ==
  {"returnsTrue", "returnsFalse", "throws", "resolvesTrue", "resolvesFalse",
   "rejects"}

\* line 109: !authHeader
NoAuthHeader(authHeader) == authHeader = NoValue \/ authHeader = <<>>

\* lines 84-142, the part of onRequest that runs before it returns; o holds
\* the options with their defaults.  The outcome is one of
\*   next          next() was called
\*   unauthorized  sendUnauthorized was called, with the type given
\*   throws        customAuth threw, and so did onRequest
\*   pending       onRequest returned with the promise of line 94 pending
AuthOnRequest(o, authHeader) ==
  IF ~o.enabled THEN [outcome |-> "next", type |-> <<>>]
  ELSE IF o.type = "custom" /\ o.customAuth # "none" THEN
    IF o.customAuth = "throws"
    THEN [outcome |-> "throws", type |-> <<>>]
    ELSE [outcome |-> "pending", type |-> <<>>]
  ELSE IF NoAuthHeader(authHeader) THEN
    [outcome |-> "unauthorized",
     type |-> IF o.type = "basic" THEN BasicWord ELSE BearerWord]
  ELSE IF o.type = "basic" THEN
    LET credentials == parseBasicAuth(authHeader)
    IN IF /\ ~credentials.isNull
          /\ credentials.username = o.username
          /\ credentials.password = o.password
       THEN [outcome |-> "next", type |-> <<>>]
       ELSE [outcome |-> "unauthorized", type |-> BasicWord]
  ELSE IF o.type = "bearer" THEN
    IF parseBearerAuth(authHeader) = o.token
    THEN [outcome |-> "next", type |-> <<>>]
    ELSE [outcome |-> "unauthorized", type |-> BearerWord]
  ELSE [outcome |-> "unauthorized", type |-> BasicWord]

\* lines 95-104, the callbacks of the promise of line 94 once customAuth has
\* given its answer: next() after a true answer, sendUnauthorized after a
\* false one or a rejection
AuthCustomSettled(o) ==
  IF o.customAuth \in {"returnsTrue", "resolvesTrue"}
  THEN [outcome |-> "next", type |-> <<>>]
  ELSE [outcome |-> "unauthorized", type |-> CustomWord]

\* lines 79-84: the plugin authPlugin returns; it has one hook, onRequest
AuthPluginOf(options) ==
  [name |-> "auth", onRequest |-> "auth", beforeRender |-> "absent",
   afterRender |-> "absent", auth |-> AuthDefaults(options)]

\* What one outcome of the hook does to the response (lines 99, 103, 110,
\* 124, 135, 141).
AuthResponse(outcome, o, response) ==
  IF outcome.outcome = "unauthorized"
  THEN sendUnauthorized(response, o.realm, outcome.type)
  ELSE response

----------------------------------------------------------------------------
(* The request handler of redocExpressMiddleware (index.ts) and the        *)
(* onRequest middleware it runs first (hooks.ts).                          *)

\* next() and advance() called without an argument
NoError == <<>>

\* The error the onRequest hook of plugin i raises.
ErrorOf(i) == <<"Error", PluginNames[i]>>

\* redocHtml, line 49: title.replace on undefined
TypeError == <<"TypeError">>

\* What the onRequest hook of a plugin does when it is called:
\*   absent         the plugin has no onRequest hook
\*   advances       it calls its continuation before it returns
\*   advancesLater  it returns and calls its continuation later
\*   fails          it calls its continuation with an error
\*   failsLater     it returns and calls its continuation with an error later
\*   throws         it throws before it has called its continuation
\*   rejects        an async hook throws: the promise it returns rejects and
\*                  its continuation is never called
\*   responds       it sends a response and never calls its continuation
\*   respondsLater  it returns, sends a response later and never calls its
\*                  continuation
\*   advancesThenThrows  it calls its continuation and then throws
OnRequestBehaviours ==
  {"absent", "advances", "advancesLater", "fails", "failsLater", "throws",
   "rejects", "responds", "respondsLater", "advancesThenThrows"}

\* Hooks that call their continuation more than once:
\*   advancesTwice           twice before it returns
\*   advancesThenFails       without and then with an error, before it returns
\*   failsThenAdvances       with and then without an error, before it returns
\*   advancesAgainLater      before it returns, and once more later
\*   advancesFailsLater      before it returns, and with an error later
\*   failsAdvancesLater      with an error before it returns, without later
\*   advancesLaterTwice      it returns and calls it twice later
\*   advancesLaterThenFails  it returns and calls it later, without and then
\*                           with an error
RepeatingBehaviours ==
  {"advancesTwice", "advancesThenFails", "failsThenAdvances",
   "advancesAgainLater", "advancesFailsLater", "failsAdvancesLater",
   "advancesLaterTwice", "advancesLaterThenFails"}

\* The calls of its continuation a hook makes before it returns or throws:
\* TRUE for a call with an error.
SyncCalls(b) ==
  CASE b \in {"advances", "advancesThenThrows", "advancesAgainLater",
              "advancesFailsLater"} -> <<FALSE>>
    [] b \in {"fails", "failsAdvancesLater"} -> <<TRUE>>
    [] b = "advancesTwice" -> <<FALSE, FALSE>>
    [] b = "advancesThenFails" -> <<FALSE, TRUE>>
    [] b = "failsThenAdvances" -> <<TRUE, FALSE>>
    [] OTHER -> <<>>

\* The calls of its continuation a hook makes after it has returned.
LaterCalls(b) ==
  CASE b \in {"advancesLater", "advancesAgainLater", "failsAdvancesLater"} ->
         <<FALSE>>
    [] b \in {"failsLater", "advancesFailsLater"} -> <<TRUE>>
    [] b = "advancesLaterTwice" -> <<FALSE, FALSE>>
    [] b = "advancesLaterThenFails" -> <<FALSE, TRUE>>
    [] OTHER -> <<>>

\* What the onRequest, beforeRender and afterRender hooks of one plugin do.
MwHookTriples ==
  { <<"absent", "returns", "absent">>,
    <<"advances", "absent", "returns">>,
    <<"advancesLater", "throws", "resolves">>,
    <<"fails", "returns", "returns">>,
    <<"failsLater", "absent", "absent">>,
    <<"throws", "returns", "absent">>,
    <<"rejects", "absent", "returns">>,
    <<"responds", "returns", "absent">>,
    <<"respondsLater", "absent", "absent">>,
    <<"advancesThenThrows", "resolves", "rejects">> }

MwPluginArrays ==
  UNION {{[i \in 1..n |-> [name |-> PluginNames[i],
                           onRequest |-> b[i][1],
                           beforeRender |-> b[i][2],
                           afterRender |-> b[i][3]]] :
            b \in [1..n -> MwHookTriples]} : n \in 0..MaxPlugins}

\* The options a middleware is created with; a caller in JavaScript can leave
\* the title out.
MwOptions ==
  {[title |-> <<"T">>, specUrl |-> <<"/", "s">>, nonce |-> Undefined,
    redocOptions |-> Undefined, plugins |-> ps] : ps \in MwPluginArrays}
  \cup
  {[specUrl |-> <<"/", "s">>, nonce |-> Undefined,
    redocOptions |-> Undefined, plugins |-> ps] : ps \in MwPluginArrays}

\* Plugins whose onRequest hook calls its continuation more than once, next
\* to plugins whose hook calls it once or never and a plugin without one.
GateHookTriples ==
  {<<b, "absent", "absent">> : b \in RepeatingBehaviours}
  \cup { <<"advancesLater", "returns", "resolves">>,
         <<"respondsLater", "absent", "absent">>,
         <<"absent", "throws", "rejects">> }

GatePluginArrays ==
  UNION {{[i \in 1..n |-> [name |-> PluginNames[i],
                           onRequest |-> b[i][1],
                           beforeRender |-> b[i][2],
                           afterRender |-> b[i][3]]] :
            b \in [1..n -> GateHookTriples]} : n \in 0..MaxPlugins}

GateOptions ==
  {[title |-> <<"T">>, specUrl |-> <<"/", "s">>, nonce |-> Undefined,
    redocOptions |-> Undefined, plugins |-> ps] : ps \in GatePluginArrays}
  \cup
  {[specUrl |-> <<"/", "s">>, nonce |-> Undefined,
    redocOptions |-> Undefined,
    plugins |-> <<[name |-> PluginNames[1], onRequest |-> "advancesTwice",
                   beforeRender |-> "absent", afterRender |-> "absent"]>>]}

\* req.headers.authorization of a request without the header
NoHeader == <<Undefined>>

Requests == {[authorization |-> NoHeader]}

\* A response nothing was written to.
NewResponse ==
  [type |-> "none", status |-> 200, wwwAuthenticate |-> <<>>,
   body |-> <<>>, sent |-> FALSE]

\* index.ts lines 22-53
redocExpressMiddleware(options) ==
  /\ mpc = "NotCreated"
  /\ mpc' = "Created"
  /\ mwOptions' = options
  /\ UNCHANGED <<continued, trigger, req, res, rstatus, rerr, rcalls, hostNext, renderVars,
                 escVars, hookVars,
                 cacheVars, regVars, metricsVars, callVars>>

\* index.ts lines 39-41: the rendering middleware sets the content type and
\* calls redocHtml
RenderingBegins(response) == [response EXCEPT !.type = "html"]

\* The handler is called with a request.  With plugins (index.ts lines
\* 55-63, hooks.ts lines 263-269) dispatch(0) calls the onRequest middleware
\* and reduce creates one suspended callback per plugin; without plugins the
\* handler is the rendering middleware.
HandleRequest(r) ==
  /\ mpc = "Created"
  /\ req' = r
  /\ LET n == Len(PluginsOf(mwOptions))
     IN IF n > 0
        THEN /\ mpc' = "Gate"
             /\ res' = NewResponse
             /\ rstatus' = [i \in 1..n |-> "waiting"]
             /\ rerr' = [i \in 1..n |-> NoError]
        ELSE /\ mpc' = "Rendering"
             /\ res' = RenderingBegins(NewResponse)
             /\ UNCHANGED <<continued, rstatus, rerr>>
  /\ UNCHANGED <<continued, trigger, mwOptions, rcalls, hostNext, renderVars, escVars, hookVars,
                 cacheVars, regVars, metricsVars, callVars>>

\* What the onRequest hook of the auth plugin does with an Authorization
\* header (plugins/auth/index.ts lines 84-142).
AuthBehaviour(o, authHeader) ==
  LET outcome == AuthOnRequest(o, authHeader).outcome
  IN CASE outcome = "next" -> "advances"
       [] outcome = "unauthorized" -> "responds"
       [] outcome = "throws" -> "throws"
       [] OTHER -> IF AuthCustomSettled(o).outcome = "next"
                   THEN "advancesLater" ELSE "respondsLater"

IsAuthPlugin(plugin) == plugin.onRequest = "auth"

OnRequestOf(i) ==
  LET plugin == PluginsOf(mwOptions)[i]
  IN IF IsAuthPlugin(plugin)
     THEN AuthBehaviour(plugin.auth, req.authorization)
     ELSE plugin.onRequest

\* A callback that drops the await of line 267.
PreviousResolved_NoAwait(i) == TRUE

\* hooks.ts line 267: await previousPromise
PreviousResolved(i) == IF i = 1 THEN TRUE ELSE rstatus[i - 1] = "resolved"

\* An executor that resolves its promise when the hook has answered the
\* request without calling its continuation.
ExecuteOnRequestHook_ResolvesOnResponse(b) ==
  CASE b \in {"absent", "advances", "advancesThenThrows", "responds"} ->
         "resolved"
    [] b \in {"fails", "throws"} -> "rejected"
    [] OTHER -> "running"

\* hooks.ts lines 241-255: the promise executeOnRequestHook returns, once the
\* hook has returned or thrown.  The executor of the promise calls the hook
\* and ignores what it returns; resolve and reject do nothing once the
\* promise is settled, and a throw of the executor rejects a promise that is
\* not settled.
ExecuteOnRequestHook(b) ==
  CASE b \in {"absent", "advances", "advancesThenThrows", "advancesTwice",
              "advancesThenFails", "advancesAgainLater",
              "advancesFailsLater"} -> "resolved"
    [] b \in {"fails", "throws", "failsThenAdvances", "failsAdvancesLater"} ->
         "rejected"
    [] OTHER -> "running"

\* A continuation that settles its promise again at every call.
Settle_LastCallWins(status, err) == IF err THEN "rejected" ELSE "resolved"

\* hooks.ts lines 244-250: the continuation calls reject(err) or resolve();
\* both do nothing once the promise is settled
Settle(status, err) ==
  IF status = "running"
  THEN IF err THEN "rejected" ELSE "resolved"
  ELSE status

\* The calls of the continuation of plugin i, as continued records them.
CallsOf(i, errs) ==
  [k \in 1..Len(errs) |->
     [plugin |-> i, err |-> IF errs[k] THEN ErrorOf(i) ELSE NoError]]

\* The number of calls the continuation of plugin i has had.
CallsMade(i) ==
  Cardinality({k \in 1..Len(continued) : continued[k].plugin = i})

\* A hook that answers the request itself, as sendUnauthorized of the auth
\* plugin does (plugins/auth/index.ts lines 58-61)
Responded(response) ==
  [response EXCEPT !.status = 401, !.body = <<"Unauthorized">>, !.sent = TRUE]

\* The response after the onRequest hook of plugin i answered the request.
ResponseOf(i) ==
  LET plugin == PluginsOf(mwOptions)[i]
  IN IF IsAuthPlugin(plugin)
     THEN LET o == plugin.auth
              outcome == AuthOnRequest(o, req.authorization)
          IN IF outcome.outcome = "pending"
             THEN AuthResponse(AuthCustomSettled(o), o, res)
             ELSE AuthResponse(outcome, o, res)
     ELSE Responded(res)

\* hooks.ts lines 266-268 and 241-255: the callback of plugin i goes on after
\* the promise before it resolved and calls executeOnRequestHook
OnRequestCallback(i) ==
  /\ mpc = "Gate"
  /\ rstatus[i] = "waiting"
  /\ PreviousResolved(i)
  /\ rstatus' = [rstatus EXCEPT ![i] = ExecuteOnRequestHook(OnRequestOf(i))]
  /\ rerr' = [rerr EXCEPT ![i] =
                IF ExecuteOnRequestHook(OnRequestOf(i)) = "rejected"
                THEN ErrorOf(i) ELSE NoError]
  /\ rcalls' = IF OnRequestOf(i) = "absent" THEN rcalls ELSE Append(rcalls, i)
  /\ res' = IF OnRequestOf(i) = "responds" THEN ResponseOf(i) ELSE res
  /\ continued' = continued \o CallsOf(i, SyncCalls(OnRequestOf(i)))
  /\ UNCHANGED <<trigger, mpc, mwOptions, req, hostNext, renderVars, escVars,
                 hookVars,
                 cacheVars, regVars, metricsVars, callVars>>

\* hooks.ts lines 244-250: a hook that returned calls its continuation
OnRequestContinuation(i) ==
  /\ mpc = "Gate"
  /\ rstatus[i] = "running"
  /\ OnRequestOf(i) \in {"advancesLater", "failsLater"}
  /\ rstatus' = [rstatus EXCEPT ![i] =
                   IF OnRequestOf(i) = "advancesLater"
                   THEN "resolved" ELSE "rejected"]
  /\ rerr' = [rerr EXCEPT ![i] =
                IF OnRequestOf(i) = "failsLater" THEN ErrorOf(i) ELSE NoError]
  /\ continued' = continued \o CallsOf(i, LaterCalls(OnRequestOf(i)))
  /\ UNCHANGED <<trigger, mpc, mwOptions, req, res, rcalls, hostNext, renderVars,
                 escVars, hookVars,
                 cacheVars, regVars, metricsVars, callVars>>

\* hooks.ts lines 244-250: a hook that calls its continuation more than once
\* has returned and calls it, for the first time or once more, while the
\* request is handled or after it
OnRequestCallsAgain(i) ==
  /\ mpc \in {"Gate", "Rendering", "Sent", "Forwarded"}
  /\ \E k \in 1..Len(rcalls) : rcalls[k] = i
  /\ OnRequestOf(i) \in RepeatingBehaviours
  /\ LET all == SyncCalls(OnRequestOf(i)) \o LaterCalls(OnRequestOf(i))
         made == CallsMade(i)
     IN /\ made >= Len(SyncCalls(OnRequestOf(i)))
        /\ made < Len(all)
        /\ rstatus' = [rstatus EXCEPT ![i] = Settle(rstatus[i], all[made + 1])]
        /\ rerr' = [rerr EXCEPT ![i] =
                      IF rstatus[i] = "running" /\ all[made + 1]
                      THEN ErrorOf(i) ELSE rerr[i]]
        /\ continued' = continued \o CallsOf(i, <<all[made + 1]>>)
  /\ UNCHANGED <<trigger, mpc, mwOptions, req, res, rcalls, hostNext,
                 renderVars, escVars, hookVars, cacheVars, regVars,
                 metricsVars, callVars>>

\* A hook that returned answers the request; its continuation is never
\* called and the promise of executeOnRequestHook stays pending.
OnRequestRespondsLater(i) ==
  /\ mpc = "Gate"
  /\ rstatus[i] = "running"
  /\ OnRequestOf(i) = "respondsLater"
  /\ ~res.sent
  /\ res' = ResponseOf(i)
  /\ UNCHANGED <<continued, trigger, mpc, mwOptions, req, rstatus, rerr, rcalls,
                 hostNext, renderVars, escVars, hookVars,
                 cacheVars, regVars, metricsVars, callVars>>

\* hooks.ts line 267: await previousPromise throws in the callback of plugin
\* i, whose promise rejects with the same error; its hook is not called
OnRequestSkipped(i) ==
  /\ mpc = "Gate"
  /\ rstatus[i] = "waiting"
  /\ i > 1
  /\ rstatus[i - 1] = "rejected"
  /\ rstatus' = [rstatus EXCEPT ![i] = "rejected"]
  /\ rerr' = [rerr EXCEPT ![i] = rerr[i - 1]]
  /\ UNCHANGED <<continued, trigger, mpc, mwOptions, req, res, rcalls, hostNext, renderVars,
                 escVars, hookVars,
                 cacheVars, regVars, metricsVars, callVars>>

\* hooks.ts line 270 and index.ts lines 63-67 and 39-41: the promise of the
\* last callback resolved; next() is dispatch(1), which calls the rendering
\* middleware
GateNext ==
  /\ mpc = "Gate"
  /\ rstatus[Len(rstatus)] = "resolved"
  /\ mpc' = "Rendering"
  /\ res' = RenderingBegins(res)
  /\ UNCHANGED <<continued, trigger, mwOptions, req, rstatus, rerr, rcalls, hostNext, renderVars,
                 escVars, hookVars,
                 cacheVars, regVars, metricsVars, callVars>>

\* hooks.ts lines 271-272 and index.ts lines 63-65: the promise of the last
\* callback rejected; next(error) calls the host's next with the error
GateCatch ==
  /\ mpc = "Gate"
  /\ rstatus[Len(rstatus)] = "rejected"
  /\ mpc' = "Forwarded"
  /\ hostNext' = Append(hostNext, rerr[Len(rerr)])
  /\ UNCHANGED <<continued, trigger, mwOptions, req, res, rstatus, rerr, rcalls, renderVars,
                 escVars, hookVars,
                 cacheVars, regVars, metricsVars, callVars>>

\* index.ts line 42: redocHtml(options)
CallRedocHtml ==
  /\ mpc = "Rendering"
  /\ "title" \in DOMAIN mwOptions
  /\ RedocHtml(mwOptions)

\* index.ts line 42: redocHtml(options) for options without a title
CallRedocHtmlThrows ==
  /\ mpc = "Rendering"
  /\ RedocHtmlThrows(mwOptions)

\* A rendering middleware that calls its next after it has sent the html.
SendHtml_ThenNext ==
  /\ mpc = "Rendering"
  /\ pc = "Done"
  /\ mpc' = "Sent"
  /\ res' = [res EXCEPT !.body = result, !.sent = TRUE]
  /\ hostNext' = Append(hostNext, NoError)
  /\ UNCHANGED <<continued, trigger, mwOptions, req, rstatus, rerr, rcalls,
                 renderVars, escVars, hookVars, cacheVars, regVars,
                 metricsVars, callVars>>

\* index.ts line 43: res.send(html)
SendHtml ==
  /\ mpc = "Rendering"
  /\ pc = "Done"
  /\ mpc' = "Sent"
  /\ res' = [res EXCEPT !.body = result, !.sent = TRUE]
  /\ UNCHANGED <<continued, trigger, mwOptions, req, rstatus, rerr, rcalls, hostNext, renderVars,
                 escVars, hookVars,
                 cacheVars, regVars, metricsVars, callVars>>

\* index.ts lines 44-45 (and 63-65): the promise of redocHtml rejected
RenderCatch ==
  /\ mpc = "Rendering"
  /\ pc = "Rejected"
  /\ mpc' = "Forwarded"
  /\ hostNext' = Append(hostNext, TypeError)
  /\ UNCHANGED <<continued, trigger, mwOptions, req, res, rstatus, rerr, rcalls, renderVars,
                 escVars, hookVars,
                 cacheVars, regVars, metricsVars, callVars>>

\* The steps of the onRequest middleware and of the rendering middleware
\* around the call of redocHtml.
HandlerStep ==
  \/ \E i \in 1..Len(rstatus) : OnRequestCallback(i)
  \/ \E i \in 1..Len(rstatus) : OnRequestContinuation(i)
  \/ \E i \in 1..Len(rstatus) : OnRequestRespondsLater(i)
  \/ \E i \in 1..Len(rstatus) : OnRequestSkipped(i)
  \/ GateNext
  \/ GateCatch
  \/ RenderStep
  \/ SendHtml
  \/ RenderCatch

\* The steps of the handler once it was called with a request.
MiddlewareStep ==
  \/ CallRedocHtml
  \/ CallRedocHtmlThrows
  \/ HandlerStep

----------------------------------------------------------------------------
(* The onError middleware (hooks.ts, createOnErrorMiddleware).             *)

\* What the onError hook of a plugin does when it is called: as for
\* onRequest, without the hook that answers the request.
OnErrorBehaviours ==
  {"absent", "advances", "advancesLater", "fails", "failsLater", "throws",
   "rejects"}

OnErrorPluginArrays ==
  UNION {{[i \in 1..n |-> [name |-> PluginNames[i], onError |-> b[i]]] :
            b \in [1..n -> OnErrorBehaviours]} : n \in 0..MaxPlugins}

\* The errors the handler is called with.
TriggeringErrors == {<<"Error", "render">>, <<"Error", "route">>}

\* hooks.ts line 301
createOnErrorMiddleware(plugins) ==
  /\ mpc = "NotCreated"
  /\ mpc' = "ErrorCreated"
  /\ mwOptions' = [plugins |-> plugins]
  /\ UNCHANGED <<continued, req, res, rstatus, rerr, rcalls, hostNext, trigger,
                 renderVars, escVars, hookVars,
                 cacheVars, regVars, metricsVars, callVars>>

\* hooks.ts lines 302-304: the handler is called with an error, and reduce
\* creates one suspended callback per plugin
HandleError(error) ==
  /\ mpc = "ErrorCreated"
  /\ mpc' = "ErrorHooks"
  /\ trigger' = error
  /\ rstatus' = [i \in 1..Len(mwOptions.plugins) |-> "waiting"]
  /\ rerr' = [i \in 1..Len(mwOptions.plugins) |-> NoError]
  /\ UNCHANGED <<continued, mwOptions, req, res, rcalls, hostNext, renderVars, escVars,
                 hookVars,
                 cacheVars, regVars, metricsVars, callVars>>

OnErrorOf(i) == mwOptions.plugins[i].onError

\* hooks.ts lines 280-294: the promise executeOnErrorHook returns, once the
\* hook has returned or thrown; as executeOnRequestHook
ExecuteOnErrorHook(b) ==
  CASE b \in {"absent", "advances"} -> "resolved"
    [] b \in {"fails", "throws"} -> "rejected"
    [] OTHER -> "running"

\* hooks.ts lines 304-311: the callback returns the promise of
\* executeOnErrorHook without awaiting it, so its own promise settles as
\* that promise does; executeOnErrorHook never throws, and the catch block of
\* lines 308-311 sees no rejection.
OnErrorCallback(i) ==
  /\ mpc = "ErrorHooks"
  /\ rstatus[i] = "waiting"
  /\ PreviousResolved(i)
  /\ rstatus' = [rstatus EXCEPT ![i] = ExecuteOnErrorHook(OnErrorOf(i))]
  /\ rerr' = [rerr EXCEPT ![i] =
                IF ExecuteOnErrorHook(OnErrorOf(i)) = "rejected"
                THEN ErrorOf(i) ELSE NoError]
  /\ rcalls' = IF OnErrorOf(i) = "absent" THEN rcalls ELSE Append(rcalls, i)
  /\ UNCHANGED <<continued, mpc, mwOptions, req, res, hostNext, trigger, renderVars,
                 escVars, hookVars,
                 cacheVars, regVars, metricsVars, callVars>>

\* hooks.ts lines 283-289: a hook that returned calls its continuation
OnErrorContinuation(i) ==
  /\ mpc = "ErrorHooks"
  /\ rstatus[i] = "running"
  /\ OnErrorOf(i) \in {"advancesLater", "failsLater"}
  /\ rstatus' = [rstatus EXCEPT ![i] =
                   IF OnErrorOf(i) = "advancesLater"
                   THEN "resolved" ELSE "rejected"]
  /\ rerr' = [rerr EXCEPT ![i] =
                IF OnErrorOf(i) = "failsLater" THEN ErrorOf(i) ELSE NoError]
  /\ UNCHANGED <<continued, mpc, mwOptions, req, res, rcalls, hostNext, trigger,
                 renderVars, escVars, hookVars,
                 cacheVars, regVars, metricsVars, callVars>>

\* hooks.ts line 305: await previousPromise, outside the try, throws in the
\* callback of plugin i, whose promise rejects with the same error; its hook
\* is not called
OnErrorSkipped(i) ==
  /\ mpc = "ErrorHooks"
  /\ rstatus[i] = "waiting"
  /\ i > 1
  /\ rstatus[i - 1] = "rejected"
  /\ rstatus' = [rstatus EXCEPT ![i] = "rejected"]
  /\ rerr' = [rerr EXCEPT ![i] = rerr[i - 1]]
  /\ UNCHANGED <<continued, mpc, mwOptions, req, res, rcalls, hostNext, trigger,
                 renderVars, escVars, hookVars,
                 cacheVars, regVars, metricsVars, callVars>>

\* hooks.ts lines 304 and 315: the promise of the last callback resolved (or
\* there is no plugin) and next(error) is called
ErrorNext ==
  /\ mpc = "ErrorHooks"
  /\ IF Len(rstatus) = 0 THEN TRUE ELSE rstatus[Len(rstatus)] = "resolved"
  /\ mpc' = "ErrorForwarded"
  /\ hostNext' = Append(hostNext, trigger)
  /\ UNCHANGED <<continued, mwOptions, req, res, rstatus, rerr, rcalls, trigger,
                 renderVars, escVars, hookVars,
                 cacheVars, regVars, metricsVars, callVars>>

\* hooks.ts line 304: the promise of the last callback rejected; the await
\* throws, the promise of the handler rejects and line 315 is not reached
ErrorHandlerRejects ==
  /\ mpc = "ErrorHooks"
  /\ Len(rstatus) > 0
  /\ rstatus[Len(rstatus)] = "rejected"
  /\ mpc' = "ErrorRejected"
  /\ UNCHANGED <<continued, mwOptions, req, res, rstatus, rerr, rcalls, hostNext,
                 trigger, renderVars, escVars, hookVars,
                 cacheVars, regVars, metricsVars, callVars>>

----------------------------------------------------------------------------
(* The onRequest hook of the auth plugin called on its own, as the tests   *)
(* of the plugin call it.                                                  *)

\* The pieces the credentials of a request are made of.
CredAtoms == {<<"a">>, <<"b">>, <<":">>, <<"a", ":">>, <<":", "c">>}

\* The credentials a client encodes: up to MaxLen pieces.
Credentials ==
  UNION {{Flatten(f) : f \in [1..n -> CredAtoms]} : n \in 0..MaxLen}

BasicHeader(credentials) ==
  BasicWord \o <<" ">> \o Base64Encode(credentials)

\* Authorization headers that are not 'Basic <base64>': an empty one, the
\* scheme alone, no space, two spaces, a third part, another scheme, the
\* scheme in lower case, and text that is not base64.
MalformedHeaders ==
  { <<>>,
    BasicWord,
    BasicWord \o Base64Encode(<<"a", ":", "b">>),
    BasicWord \o <<" ", " ">> \o Base64Encode(<<"a", ":", "b">>),
    BasicHeader(<<"a", ":", "b">>) \o <<" ", "x">>,
    BearerWord \o <<" ">> \o Base64Encode(<<"a", ":", "b">>),
    <<"b", "a", "s", "i", "c", " ">> \o Base64Encode(<<"a", ":", "b">>),
    BasicWord \o <<" ", "!", "!">>,
    BearerWord \o <<" ", "t">> }

AuthRequests ==
  {[authorization |-> h] :
     h \in {NoValue} \cup MalformedHeaders
             \cup {BasicHeader(c) : c \in Credentials}}

\* The options authPlugin is called with in Basic mode: the type named or
\* left out, credentials with and without a colon, the realm given or not.
BasicAuthOptions ==
  {[username |-> u, password |-> p] :
     u \in {<<"a">>}, p \in {<<"b">>, <<"b", ":", "c">>}}
  \cup {[type |-> "basic", username |-> <<"a">>, password |-> <<"b">>,
         realm |-> <<"R">>],
        [type |-> "basic"],
        [type |-> "basic", username |-> <<"a">>],
        [type |-> "basic", username |-> <<"a">>, password |-> <<"b">>,
         enabled |-> FALSE]}

BearerAuthOptions ==
  {[type |-> "bearer", token |-> <<"t">>], [type |-> "bearer"]}

CustomAuthOptions ==
  {[type |-> "custom", customAuth |-> b] : b \in CustomAuthBehaviours}
  \cup {[type |-> "custom", customAuth |-> "rejects", realm |-> <<"R">>],
        [type |-> "custom"],
        [type |-> "digest"]}

AuthOptions == BasicAuthOptions \cup BearerAuthOptions \cup CustomAuthOptions

\* authPlugin(options), lines 68-150
authPlugin(options) ==
  /\ mpc = "NotCreated"
  /\ mpc' = "AuthCreated"
  /\ mwOptions' = [plugins |-> <<AuthPluginOf(options)>>]
  /\ UNCHANGED <<continued, trigger, req, res, rstatus, rerr, rcalls, hostNext,
                 renderVars, escVars, hookVars,
                 cacheVars, regVars, metricsVars, callVars>>

AuthConfig == mwOptions.plugins[1].auth

\* The calls of the next given to the hook (lines 86, 97, 122, 133).
AuthNextCalls(outcome, calls) ==
  IF outcome.outcome = "next" THEN Append(calls, NoError) ELSE calls

\* plugin.hooks.onRequest(req, res, next), lines 84-142, until it returns or
\* throws
AuthOnRequestCall(r) ==
  /\ mpc = "AuthCreated"
  /\ req' = r
  /\ LET outcome == AuthOnRequest(AuthConfig, r.authorization)
     IN /\ res' = AuthResponse(outcome, AuthConfig, res)
        /\ hostNext' = AuthNextCalls(outcome, hostNext)
        /\ mpc' = CASE outcome.outcome = "pending" -> "AuthPending"
                    [] outcome.outcome = "throws" -> "AuthThrew"
                    [] OTHER -> "AuthReturned"
  /\ UNCHANGED <<continued, trigger, mwOptions, rstatus, rerr, rcalls, renderVars,
                 escVars, hookVars,
                 cacheVars, regVars, metricsVars, callVars>>

\* lines 95-104: customAuth gave its answer and the callbacks of the promise
\* run
AuthCustomSettles ==
  /\ mpc = "AuthPending"
  /\ LET outcome == AuthCustomSettled(AuthConfig)
     IN /\ res' = AuthResponse(outcome, AuthConfig, res)
        /\ hostNext' = AuthNextCalls(outcome, hostNext)
  /\ mpc' = "AuthReturned"
  /\ UNCHANGED <<continued, trigger, mwOptions, req, rstatus, rerr, rcalls, renderVars,
                 escVars, hookVars,
                 cacheVars, regVars, metricsVars, callVars>>

----------------------------------------------------------------------------
(* The auth plugin inside the middleware.                                  *)

\* The auth plugins of the middleware: Basic, disabled, Bearer, custom with
\* a predicate that answers true or false, rejects or throws.
AuthMwPlugins ==
  {AuthPluginOf(o) :
     o \in {[username |-> <<"a">>, password |-> <<"b">>],
            [username |-> <<"a">>, password |-> <<"b">>, enabled |-> FALSE],
            [type |-> "bearer", token |-> <<"t">>, realm |-> <<"R">>],
            [type |-> "custom", customAuth |-> "resolvesTrue"],
            [type |-> "custom", customAuth |-> "returnsFalse"],
            [type |-> "custom", customAuth |-> "rejects"],
            [type |-> "custom", customAuth |-> "throws"]}}

\* The plugins next to the auth plugin, with hooks of every kind.
OtherMwPlugins ==
  {[name |-> "B", onRequest |-> b[1], beforeRender |-> b[2],
    afterRender |-> b[3]] :
     b \in {<<"advances", "returns", "resolves">>,
            <<"advancesLater", "throws", "rejects">>,
            <<"absent", "resolves", "returns">>}}

AuthMwPluginArrays ==
  UNION {[1..n -> AuthMwPlugins \cup OtherMwPlugins] : n \in 0..MaxPlugins}

AuthMwOptions ==
  {[title |-> <<"T">>, specUrl |-> <<"/", "s">>, nonce |-> Undefined,
    redocOptions |-> Undefined, plugins |-> ps] : ps \in AuthMwPluginArrays}
  \cup
  {[specUrl |-> <<"/", "s">>, nonce |-> Undefined,
    redocOptions |-> Undefined, plugins |-> <<p>>] : p \in AuthMwPlugins}

AuthMwRequests ==
  {[authorization |-> h] :
     h \in {NoValue,
            BasicHeader(<<"a", ":", "b">>),
            BasicHeader(<<"a", ":", "c">>),
            BearerWord \o <<" ", "t">>}}

----------------------------------------------------------------------------
(* The cache plugin (plugins/cache/index.ts).                              *)

Nul == "U+0000"

\* a < b for strings, by code unit as Array.prototype.sort compares them
RECURSIVE StringLess(_, _)
StringLess(a, b) ==
  IF b = <<>> THEN FALSE
  ELSE IF a = <<>> THEN TRUE
  ELSE IF Head(a) = Head(b) THEN StringLess(Tail(a), Tail(b))
  ELSE ByteOf(Head(a)) < ByteOf(Head(b))

\* Object.keys(obj) without the sort: the properties in insertion order.
SortByKey_InsertionOrder(props) == props

\* line 16, Object.keys(obj).sort(): the properties by ascending key
RECURSIVE SortByKey(_)
SortByKey(props) ==
  IF props = <<>> THEN <<>>
  ELSE LET i == CHOOSE i \in 1..Len(props) :
                  \A j \in 1..Len(props) :
                    j = i \/ StringLess(props[i].key, props[j].key)
       IN <<props[i]>>
          \o SortByKey(SubSeq(props, 1, i - 1)
                       \o SubSeq(props, i + 1, Len(props)))

\* Array.prototype.join
RECURSIVE Join(_, _)
Join(parts, sep) ==
  IF parts = <<>> THEN <<>>
  ELSE IF Len(parts) = 1 THEN parts[1]
  ELSE parts[1] \o sep \o Join(Tail(parts), sep)

RECURSIVE stableStringify(_)
\* lines 9-21, for an object whose properties hold a string (value) or an
\* object of that kind (object): the keys sorted at every level (16), each
\* pair written as JSON.stringify(k) + ':' + stableStringify(obj[k]) (17-19),
\* a string by JSON.stringify (10-12)
stableStringify(obj) ==
  LET sorted == SortByKey(obj)
      pairs == [i \in 1..Len(sorted) |->
                  QuoteJSONString(sorted[i].key) \o <<":">>
                  \o (IF "object" \in DOMAIN sorted[i]
                      THEN stableStringify(sorted[i].object)
                      ELSE QuoteJSONString(sorted[i].value))]
  IN <<"{">> \o Join(pairs, <<",">>) \o <<"}">>

\* line 27: a property of the options, or its default
CacheField(options, name, default) ==
  IF name \in DOMAIN options THEN options[name] ELSE default

\* line 28
Payload(options) ==
  Join(<<CacheField(options, "title", <<>>),
         CacheField(options, "specUrl", <<>>),
         CacheField(options, "nonce", <<>>),
         stableStringify(CacheField(options, "redocOptions", <<>>))>>,
       <<Nul>>)

\* lines 26-30.  The first 16 hex digits of the SHA-256 digest are written as
\* the payload they were computed from: two keys are equal exactly when
\* their payloads are.
deriveKey(options) == <<"sha256">> \o Payload(options)

\* line 4
LEGACY_CACHE_KEY == <<"redoc-html">>

\* A hook called without its second argument.
NoOptions == [omitted |-> TRUE]

\* Hooks that use the one legacy key whatever their options.
CacheKeyOf_AlwaysLegacy(options) == LEGACY_CACHE_KEY

\* lines 152 and 162
CacheKeyOf(options) ==
  IF options = NoOptions THEN LEGACY_CACHE_KEY ELSE deriveKey(options)

TenMegabytes == 10 * 1024 * 1024

\* line 138, and line 57 for the ttl in milliseconds
CacheDefaults(options) ==
  [ttl |-> CacheField(options, "ttl", 3600) * 1000,
   maxSize |-> CacheField(options, "maxSize", TenMegabytes),
   enabled |-> CacheField(options, "enabled", TRUE)]

\* Map.prototype.get on the entries in insertion order; 0 for no entry
EntryIndex(entries, key) ==
  IF \E i \in 1..Len(entries) : entries[i].key = key
  THEN CHOOSE i \in 1..Len(entries) : entries[i].key = key
  ELSE 0

\* Map.prototype.delete
MapDelete(entries, i) ==
  SubSeq(entries, 1, i - 1) \o SubSeq(entries, i + 1, Len(entries))

\* Map.prototype.set: an entry of a key that is there is replaced in place
MapSet(entries, entry) ==
  LET i == EntryIndex(entries, entry.key)
  IN IF i = 0 THEN Append(entries, entry)
     ELSE [entries EXCEPT ![i] = entry]

\* lines 95-105: the first entry, in insertion order, of the least timestamp
\* below the time of the call; 0 when no entry is older than the call
OldestIndex(entries, time) ==
  LET older == {i \in 1..Len(entries) : entries[i].timestamp < time}
  IN IF older = {} THEN 0
     ELSE CHOOSE i \in older :
            \A j \in older :
              \/ entries[i].timestamp < entries[j].timestamp
              \/ entries[i].timestamp = entries[j].timestamp /\ i <= j

\* lines 95-115; a store is the record of the entries and currentSize
evictOldest(store, time) ==
  LET i == OldestIndex(store.entries, time)
  IN IF i = 0 THEN store
     ELSE [entries |-> MapDelete(store.entries, i),
           currentSize |-> store.currentSize - store.entries[i].size]

\* lines 61-76; Buffer.byteLength of a string of ASCII characters is its
\* length
CacheSet(store, key, page, time) ==
  LET size == Len(page)
      room == IF store.currentSize + size > cacheOptions.maxSize
              THEN evictOldest(store, time) ELSE store
  IN [entries |-> MapSet(room.entries,
                         [key |-> key, html |-> page, timestamp |-> time,
                          size |-> size]),
      currentSize |-> room.currentSize + size]

\* null, what get returns for no entry and for an expired one
Null == <<"null">>

\* lines 78-93: the value get returns
CacheGetValue(store, key, time) ==
  LET i == EntryIndex(store.entries, key)
  IN IF i = 0 THEN Null
     ELSE IF time - store.entries[i].timestamp > cacheOptions.ttl THEN Null
     ELSE store.entries[i].html

\* lines 78-93: the store after get, which deletes an expired entry
CacheGetStore(store, key, time) ==
  LET i == EntryIndex(store.entries, key)
  IN IF i # 0 /\ time - store.entries[i].timestamp > cacheOptions.ttl
     THEN [entries |-> MapDelete(store.entries, i),
           currentSize |-> store.currentSize - store.entries[i].size]
     ELSE store

\* line 165, if (cached): null and the empty string are falsy
Truthy(value) == value # Null /\ value # <<>>

\* cachePlugin(options), lines 137-140
cachePlugin(options) ==
  /\ cpc = "NotCreated"
  /\ cpc' = "Created"
  /\ cacheOptions' = CacheDefaults(options)
  /\ UNCHANGED <<cache, now, clog, renderVars, escVars, hookVars, mwVars, regVars, metricsVars, callVars>>

Stores == {k \in 1..Len(clog) : clog[k].hook = "afterRender"}

\* plugin.hooks.afterRender(page, options), lines 147-156
CacheAfterRender(page, options) ==
  /\ cpc = "Created"
  /\ Cardinality(Stores) < MaxStores
  /\ cache' = IF cacheOptions.enabled
              THEN CacheSet(cache, CacheKeyOf(options), page, now)
              ELSE cache
  /\ clog' = Append(clog, [hook |-> "afterRender", html |-> page,
                           options |-> options, at |-> now,
                           key |-> CacheKeyOf(options), hit |-> FALSE,
                           returned |-> page])
  /\ UNCHANGED <<cpc, cacheOptions, now, renderVars, escVars, hookVars,
                 mwVars, regVars, metricsVars, callVars>>

\* plugin.hooks.beforeRender(page, options), lines 157-170
CacheBeforeRender(page, options) ==
  /\ cpc = "Created"
  /\ cpc' = "Returned"
  /\ LET key == CacheKeyOf(options)
         cached == CacheGetValue(cache, key, now)
     IN IF cacheOptions.enabled
        THEN /\ cache' = CacheGetStore(cache, key, now)
             /\ clog' = Append(clog, [hook |-> "beforeRender", html |-> page,
                                      options |-> options, at |-> now,
                                      key |-> key, hit |-> Truthy(cached),
                                      returned |-> IF Truthy(cached)
                                                   THEN cached ELSE page])
        ELSE /\ cache' = cache
             /\ clog' = Append(clog, [hook |-> "beforeRender", html |-> page,
                                      options |-> options, at |-> now,
                                      key |-> key, hit |-> FALSE,
                                      returned |-> page])
  /\ UNCHANGED <<cacheOptions, now, renderVars, escVars, hookVars, mwVars, regVars, metricsVars, callVars>>

\* Date.now() goes on by d milliseconds after a call of a hook.
Tick(d) ==
  /\ cpc = "Created"
  /\ clog # <<>>
  /\ clog[Len(clog)].at = now
  /\ now' = now + d
  /\ UNCHANGED <<cpc, cacheOptions, cache, clog, renderVars, escVars,
                 hookVars, mwVars, regVars, metricsVars, callVars>>

\* The options cachePlugin is called with: the defaults, a ttl of one
\* second, room for three bytes, and a cache that is switched off.
CachePluginOptions ==
  {[enabled |-> TRUE], [ttl |-> 1], [maxSize |-> 3], [enabled |-> FALSE]}

\* The options the hooks are called with: the same options with and without
\* the defaults written out, another specUrl, redocOptions, and two titles
\* and specUrls with a NUL character.
CacheConfigs ==
  { [title |-> <<"T">>, specUrl |-> <<"/", "s">>],
    [title |-> <<"T">>, specUrl |-> <<"/", "s">>, nonce |-> <<>>,
     redocOptions |-> <<>>],
    [title |-> <<"T">>, specUrl |-> <<"/", "t">>],
    [title |-> <<"T">>, specUrl |-> <<"/", "s">>,
     redocOptions |-> <<[key |-> <<"b">>, value |-> <<"2">>],
                        [key |-> <<"a">>, value |-> <<"1">>]>>],
    [title |-> <<"T", Nul>>, specUrl |-> <<"s">>],
    [title |-> <<"T">>, specUrl |-> <<Nul, "s">>] }

\* The html of a store: empty, or two characters that name the store.
DigitOf(k) == HexDigit(k % 16)

StoredHtml(k) == {<<>>, <<"h", DigitOf(k)>>}

\* The step of the clock: more than a second.
TickSteps == {1001}

----------------------------------------------------------------------------
(* A render call whose plugins are one cache plugin                        *)
(* (redoc-html-template.ts lines 47-70, hooks.ts, plugins/cache/index.ts). *)

\* The options of a render call, with the fields left out undefined.
RenderCfgOf(options) ==
  [title |-> options.title,
   specUrl |-> options.specUrl,
   nonce |-> IF "nonce" \in DOMAIN options THEN options.nonce ELSE Undefined,
   redocOptions |-> IF "redocOptions" \in DOMAIN options
                    THEN options.redocOptions ELSE Undefined]

\* hooks.ts line 225: plugin.hooks.afterRender(currentHtml); the hook gets
\* no second argument.
AfterRenderOptions(options) == NoOptions

\* The options of the render calls with the cache plugin.
CachedRenderConfigs ==
  { [title |-> <<"T">>, specUrl |-> <<"/", "s">>],
    [title |-> <<"T">>, specUrl |-> <<"/", "t">>],
    [title |-> <<"T">>, specUrl |-> <<"/", "s">>, nonce |-> <<"n">>] }

\* redocHtml lines 47-62 with plugins = [the cache plugin]: the template is
\* filled, executeBeforeRenderHooks calls beforeRender(renderedHtml, options)
\* (hooks.ts line 200, cache lines 157-170) and its value is assigned
RenderWithCacheBegins(options) ==
  /\ cpc = "Created"
  /\ pc \in {"Initial", "Done"}
  /\ Cardinality(Stores) < MaxStores
  /\ pc' = "BeforeHooksDone"
  /\ fn' = "redocHtml"
  /\ cfg' = RenderCfgOf(options)
  /\ safe' = Escaped(RenderCfgOf(options))
  /\ LET filled == FillTemplate(Escaped(RenderCfgOf(options)))
         key == CacheKeyOf(options)
         cached == CacheGetValue(cache, key, now)
         found == cacheOptions.enabled /\ Truthy(cached)
     IN /\ placed' = filled.placed
        /\ renderedHtml' = IF found THEN cached ELSE filled.html
        /\ cache' = IF cacheOptions.enabled
                    THEN CacheGetStore(cache, key, now) ELSE cache
        /\ clog' = Append(clog, [hook |-> "beforeRender",
                                 html |-> filled.html, options |-> options,
                                 at |-> now, key |-> key, hit |-> found,
                                 returned |-> IF found THEN cached
                                              ELSE filled.html])
  /\ UNCHANGED <<result, cpc, cacheOptions, now, escVars, hookVars, mwVars, regVars, metricsVars, callVars>>

\* redocHtml lines 66-70: executeAfterRenderHooks calls
\* afterRender(currentHtml) (hooks.ts line 225, cache lines 147-156), and
\* the html is returned
RenderWithCacheReturns ==
  /\ cpc = "Created"
  /\ pc = "BeforeHooksDone"
  /\ pc' = "Done"
  /\ result' = renderedHtml
  /\ LET key == CacheKeyOf(AfterRenderOptions(cfg))
     IN /\ cache' = IF cacheOptions.enabled
                    THEN CacheSet(cache, key, renderedHtml, now) ELSE cache
        /\ clog' = Append(clog, [hook |-> "afterRender",
                                 html |-> renderedHtml,
                                 options |-> AfterRenderOptions(cfg),
                                 at |-> now, key |-> key, hit |-> FALSE,
                                 returned |-> renderedHtml])
  /\ UNCHANGED <<fn, cfg, safe, placed, renderedHtml, cpc, cacheOptions, now,
                 escVars, hookVars, mwVars, regVars, metricsVars, callVars>>


\* The options of render calls that run at the same time: they differ in
\* the title, the specUrl, the nonce or the redocOptions.
ConcurrentConfigs ==
  CachedRenderConfigs \cup
  { [title |-> <<"U">>, specUrl |-> <<"/", "s">>],
    [title |-> <<"T">>, specUrl |-> <<"/", "s">>,
     redocOptions |-> <<[key |-> <<"a">>, value |-> <<"1">>]>>] }

\* The html redocHtml makes of the options before any hook (lines 47-58).
Rendered(options) == FillTemplate(Escaped(RenderCfgOf(options))).html

\* The calls whose beforeRender hook, and whose afterRender hook, has run.
Begun == {clog[k].call : k \in {j \in 1..Len(clog) :
                                   clog[j].hook = "beforeRender"}}

Returned == {clog[k].call : k \in {j \in 1..Len(clog) :
                                      clog[j].hook = "afterRender"}}

\* The entry of the log the hook of a call wrote.
EntryOf(c, hook) ==
  clog[CHOOSE k \in 1..Len(clog) : clog[k].call = c /\ clog[k].hook = hook]

\* redocHtml lines 47-62 of call c, one of several calls that share the
\* cache plugin: the template is filled and, in a later turn of the event
\* loop, executeBeforeRenderHooks calls beforeRender(renderedHtml, options)
\* (hooks.ts lines 198-200, cache lines 157-170).  The hook runs without
\* interruption; the call then waits for its afterRender stage.
ConcurrentRenderBegins(c, options) ==
  /\ cpc = "Created"
  /\ c \notin Begun
  /\ \A b \in 1..(c - 1) : b \in Begun
  /\ LET filled == Rendered(options)
         key == CacheKeyOf(options)
         cached == CacheGetValue(cache, key, now)
         found == cacheOptions.enabled /\ Truthy(cached)
     IN /\ cache' = IF cacheOptions.enabled
                    THEN CacheGetStore(cache, key, now) ELSE cache
        /\ clog' = Append(clog, [hook |-> "beforeRender", call |-> c,
                                 html |-> filled, options |-> options,
                                 at |-> now, key |-> key, hit |-> found,
                                 returned |-> IF found THEN cached
                                              ELSE filled])
  /\ UNCHANGED <<cpc, cacheOptions, now, renderVars, escVars, hookVars,
                 mwVars, regVars, metricsVars, callVars>>

\* redocHtml lines 66-70 of call c: executeAfterRenderHooks calls
\* afterRender(currentHtml) (hooks.ts line 225, cache lines 147-156) with the
\* value of the beforeRender stage, and the call resolves with what the hook
\* returns.
ConcurrentRenderReturns(c) ==
  /\ cpc = "Created"
  /\ c \in Begun
  /\ c \notin Returned
  /\ LET before == EntryOf(c, "beforeRender")
         key == CacheKeyOf(AfterRenderOptions(before.options))
     IN /\ cache' = IF cacheOptions.enabled
                    THEN CacheSet(cache, key, before.returned, now)
                    ELSE cache
        /\ clog' = Append(clog, [hook |-> "afterRender", call |-> c,
                                 html |-> before.returned,
                                 options |-> AfterRenderOptions(before.options),
                                 at |-> now, key |-> key, hit |-> FALSE,
                                 returned |-> before.returned])
  /\ UNCHANGED <<cpc, cacheOptions, now, renderVars, escVars, hookVars,
                 mwVars, regVars, metricsVars, callVars>>
----------------------------------------------------------------------------
(* validatePlugin (hooks.ts) and the plugin registry (plugin-system.ts).   *)

HookNames == <<"beforeRender", "afterRender", "onRequest", "onError">>

\* The values a caller in JavaScript can give to a hook, by their kind.
JsValues == {"undefined", "function", "string", "zero", "null", "object"}

\* !value
Falsy(value) == value \in {"undefined", "zero", "null"}

\* A property of an object, undefined when the object has none of the name.
\* The name of a plugin is a string (NoValue when undefined), its hooks an
\* object of four values.
HasField(object, field) == field \in DOMAIN object

\* line 325: !plugin.name
NameMissing(plugin) ==
  IF HasField(plugin, "name") THEN plugin.name = <<>> ELSE TRUE

\* line 329: !plugin.hooks; hooks, when given, is an object or null
HooksMissing(plugin) ==
  IF HasField(plugin, "hooks") THEN plugin.hooks.isNull ELSE TRUE

\* lines 336, 340, 344, 348: hook && typeof hook !== 'function'
HookRefused(value) == ~Falsy(value) /\ value # "function"

NoThrow == "none"

\* lines 324-351: what validatePlugin throws, NoThrow when it returns
validatePlugin(plugin) ==
  IF NameMissing(plugin) THEN "Plugin must have a name"
  ELSE IF HooksMissing(plugin) THEN "must have hooks defined"
  ELSE IF HookRefused(plugin.hooks.beforeRender)
    THEN "beforeRender must be a function"
  ELSE IF HookRefused(plugin.hooks.afterRender)
    THEN "afterRender must be a function"
  ELSE IF HookRefused(plugin.hooks.onRequest)
    THEN "onRequest must be a function"
  ELSE IF HookRefused(plugin.hooks.onError)
    THEN "onError must be a function"
  ELSE NoThrow

\* Map.prototype.has and Map.prototype.get on the plugins in insertion
\* order; 0 for no plugin of the name
PluginIndex(plugins, name) ==
  IF \E i \in 1..Len(plugins) : plugins[i].name = name
  THEN CHOOSE i \in 1..Len(plugins) : plugins[i].name = name
  ELSE 0

\* plugin-system.ts lines 62-64
has(name) == PluginIndex(registry, name) # 0

\* The value get returns for no plugin: undefined.
NoPlugin == [undefined |-> TRUE]

\* plugin-system.ts lines 47-49
get(name) ==
  IF has(name) THEN registry[PluginIndex(registry, name)] ELSE NoPlugin

\* plugin-system.ts lines 55-57: Array.from(this.plugins.values())
getAll == registry

\* A filter on the truthiness of the hook.
getPluginsWithHook_Truthy(hookName) ==
  SelectSeq(registry, LAMBDA plugin : ~Falsy(plugin.hooks[hookName]))

\* plugin-system.ts lines 90-92
getPluginsWithHook(hookName) ==
  SelectSeq(getAll, LAMBDA plugin : plugin.hooks[hookName] # "undefined")

\* plugin-system.ts lines 70-72
count == Len(registry)

\* plugin-system.ts lines 16-28, and registerPlugin (100-102)
register(plugin) ==
  LET error == validatePlugin(plugin)
  IN IF error # NoThrow
     THEN /\ rlast' = [op |-> "register", plugin |-> plugin, threw |-> error]
          /\ UNCHANGED registry
     ELSE IF has(plugin.name)
     THEN /\ rlast' = [op |-> "register", plugin |-> plugin,
                       threw |-> "is already registered"]
          /\ UNCHANGED registry
     ELSE /\ rlast' = [op |-> "register", plugin |-> plugin,
                       threw |-> NoThrow]
          /\ registry' = Append(registry, plugin)

\* An unregister that empties the registry.
unregister_ClearsAll(name) ==
  /\ registry' = <<>>
  /\ rlast' = [op |-> "unregister", name |-> name, threw |-> NoThrow,
               returned |-> PluginIndex(registry, name) # 0]

\* plugin-system.ts lines 35-41, and unregisterPlugin (109-111)
unregister(name) ==
  LET i == PluginIndex(registry, name)
  IN /\ registry' = IF i = 0 THEN registry
                    ELSE SubSeq(registry, 1, i - 1)
                         \o SubSeq(registry, i + 1, Len(registry))
     /\ rlast' = [op |-> "unregister", name |-> name, threw |-> NoThrow,
                  returned |-> i # 0]

\* plugin-system.ts lines 78-81, and clearPlugins (133-135)
clear ==
  /\ registry' = <<>>
  /\ rlast' = [op |-> "clear", threw |-> NoThrow]

\* plugin-system.ts lines 151-154
createPlugin(config) ==
  /\ rlast' = [op |-> "createPlugin", plugin |-> config,
               threw |-> validatePlugin(config)]
  /\ UNCHANGED registry

NoHooks ==
  [isNull |-> FALSE, beforeRender |-> "undefined",
   afterRender |-> "undefined", onRequest |-> "undefined",
   onError |-> "undefined"]

\* The hooks objects given to createPlugin: every value for beforeRender and
\* for onError, next to hooks that are left out or are functions.
HooksObjects ==
  {[isNull |-> FALSE, beforeRender |-> b, afterRender |-> a,
    onRequest |-> r, onError |-> e] :
     b \in JsValues, a \in {"undefined", "function"},
     r \in {"undefined", "function", "string"}, e \in JsValues}
  \cup {[NoHooks EXCEPT !.isNull = TRUE]}

\* The plugins given to createPlugin.
PluginInputs ==
  {[name |-> n, hooks |-> h] : n \in {<<"p">>, <<>>}, h \in HooksObjects}
  \cup {[hooks |-> NoHooks], [name |-> <<"p">>]}

\* The plugins given to register: two names, hooks of several kinds, and
\* plugins validatePlugin refuses.
RegistryPlugins ==
  {[name |-> n, hooks |-> h] :
     n \in {<<"p">>, <<"q">>},
     h \in {NoHooks,
            [NoHooks EXCEPT !.beforeRender = "function"],
            [NoHooks EXCEPT !.afterRender = "function"],
            [NoHooks EXCEPT !.beforeRender = "function",
                            !.onError = "function"],
            [NoHooks EXCEPT !.beforeRender = "null"],
            [NoHooks EXCEPT !.beforeRender = "string"],
            [NoHooks EXCEPT !.isNull = TRUE]}}
  \cup {[name |-> <<>>, hooks |-> NoHooks]}

PluginNameInputs == {<<"p">>, <<"q">>, <<"r">>}

----------------------------------------------------------------------------
(* The metrics plugin and its MetricsCollector                             *)
(* (src/src/plugins/metrics/index.ts).  A Metric is an object: the array   *)
(* of the collector, the array getMetrics returns and the argument of      *)
(* onMetric hold the object itself, here its identity in heap.             *)

\* plugins/metrics/index.ts lines 45-47: the default of the constructor,
\* which metricsPlugin (92) takes
maxMetrics == MaxMetrics

\* plugins/metrics/index.ts line 64: m.responseTime || 0
ResponseTimeOr0(m) == IF m.responseTime = <<>> THEN 0 ELSE m.responseTime[1]

RECURSIVE SumResponseTimes(_)
\* plugins/metrics/index.ts line 64: the reduce
SumResponseTimes(ids) ==
  IF ids = <<>> THEN 0
  ELSE ResponseTimeOr0(heap[Head(ids)]) + SumResponseTimes(Tail(ids))

\* Math.round of the quotient of two integers, the second one positive
RoundDiv(sum, n) == (2 * sum + n) \div (2 * n)

\* plugins/metrics/index.ts lines 66-69: one count for each method of a
\* metric of the array
methodCounts ==
  [method \in {heap[metrics[i]].method : i \in 1..Len(metrics)} |->
     Cardinality({i \in 1..Len(metrics) : heap[metrics[i]].method = method})]

\* this.metrics[this.metrics.length - 1] of an empty array, and an identity
\* no Metric has
NoMetric == 0

\* plugins/metrics/index.ts lines 62-77; sum / 0 is NaN, and NaN || 0 is 0
getStats ==
  [totalRequests |-> Len(metrics),
   avgResponseTime |->
     IF Len(metrics) = 0 THEN 0
     ELSE RoundDiv(SumResponseTimes(metrics), Len(metrics)),
   methodCounts |-> methodCounts,
   lastRequest |->
     IF metrics = <<>> THEN NoMetric ELSE metrics[Len(metrics)]]

\* What the array getMetrics returns holds: the Metric objects of the
\* collector as they are now.
getMetrics == [i \in 1..Len(metrics) |-> heap[metrics[i]]]

\* A collector that keeps every metric.
addMetric_Unbounded(id) == Append(metrics, id)

\* plugins/metrics/index.ts lines 49-56
addMetric(id) ==
  IF Len(Append(metrics, id)) > maxMetrics
  THEN Tail(Append(metrics, id))
  ELSE Append(metrics, id)

\* plugins/metrics/index.ts lines 89-92
metricsPlugin(options) ==
  /\ mop.op = "NotCreated"
  /\ metricsOptions' =
       [enabled |-> IF "enabled" \in DOMAIN options
                    THEN options.enabled ELSE TRUE,
        onMetric |-> "onMetric" \in DOMAIN options]
  /\ mop' = [op |-> "metricsPlugin", next |-> FALSE]
  /\ UNCHANGED <<heap, metrics, listening, mtime, copy, notified, finished>>

\* plugins/metrics/index.ts lines 99-131: hooks.onRequest
MetricsOnRequest(request) ==
  /\ mop.op # "NotCreated"
  /\ Len(heap) < MaxRequests
  /\ IF ~metricsOptions.enabled
     THEN UNCHANGED <<heap, listening>>
     ELSE /\ heap' = Append(heap, [timestamp |-> mtime,
                                   method |-> request.method,
                                   url |-> request.url,
                                   responseTime |-> <<>>])
          /\ listening' = listening \cup {Len(heap) + 1}
  /\ mop' = [op |-> "onRequest", next |-> TRUE]
  /\ UNCHANGED <<metricsOptions, metrics, mtime, copy, notified, finished>>

\* plugins/metrics/index.ts lines 117-128: the finish listener
ResponseFinishes(id) ==
  /\ id \in listening
  /\ heap' = [heap EXCEPT ![id].responseTime = <<mtime - heap[id].timestamp>>]
  /\ metrics' = addMetric(id)
  /\ listening' = listening \ {id}
  /\ notified' = IF metricsOptions.onMetric
                 THEN Append(notified, id) ELSE notified
  /\ finished' = Append(finished, id)
  /\ mop' = [op |-> "finish", next |-> FALSE]
  /\ UNCHANGED <<metricsOptions, mtime, copy>>

\* Date.now() moves on.
TimePasses ==
  /\ mop.op # "NotCreated"
  /\ mtime < MaxElapsed
  /\ mtime' = mtime + 1
  /\ UNCHANGED <<mop, metricsOptions, heap, metrics, listening, copy,
                 notified, finished>>

\* plugins/metrics/index.ts lines 58-60 and 136: config.getMetrics()
GetMetricsCall ==
  /\ mop.op # "NotCreated"
  /\ copy' = metrics
  /\ mop' = [op |-> "getMetrics", next |-> FALSE]
  /\ UNCHANGED <<metricsOptions, heap, metrics, listening, mtime, notified,
                 finished>>

\* The caller of getMetrics takes the first element out of the array it
\* was given.
CopyShift ==
  /\ copy # <<>>
  /\ copy' = Tail(copy)
  /\ mop' = [op |-> "copyShift", next |-> FALSE]
  /\ UNCHANGED <<metricsOptions, heap, metrics, listening, mtime, notified,
                 finished>>

\* The caller of getMetrics writes the method of an element of the array
\* it was given: the spread of line 59 copied the references.
CopyWrite(i, method) ==
  /\ i \in 1..Len(copy)
  /\ heap' = [heap EXCEPT ![copy[i]].method = method]
  /\ mop' = [op |-> "copyWrite", next |-> FALSE]
  /\ UNCHANGED <<metricsOptions, metrics, listening, mtime, copy, notified,
                 finished>>

\* plugins/metrics/index.ts lines 79-81 and 138: config.clearMetrics()
clearMetrics ==
  /\ mop.op # "NotCreated"
  /\ metrics' = <<>>
  /\ finished' = <<>>
  /\ mop' = [op |-> "clearMetrics", next |-> FALSE]
  /\ UNCHANGED <<metricsOptions, heap, listening, mtime, copy, notified>>

Methods == {"GET", "POST"}

MetricsRequests == {[method |-> m, url |-> <<"/", "d">>] : m \in Methods}

MetricsPluginOptions ==
  {[enabled |-> TRUE], [enabled |-> FALSE], [onMetric |-> "function"]}

----------------------------------------------------------------------------
(* A caller that makes render calls without plugins one after the other.  *)
(* redocHtml and redocHtmlSync read the template constant (lines 14-39)    *)
(* and their argument, and keep nothing from one call to the next.         *)

\* The caller has the document of a call without plugins, or of a call of
\* redocHtmlSync, which does not read the plugins, and turns to its next
\* call.
NextCall ==
  /\ pc = "Done"
  /\ (Len(PluginsOf(cfg)) = 0 \/ fn = "redocHtmlSync")
  /\ Len(history) < MaxCalls
  /\ history' = Append(history,
                       [fn |-> fn, options |-> cfg, returned |-> result])
  /\ pc' = "Initial"
  /\ fn' = "none"
  /\ cfg' = [title |-> <<>>, specUrl |-> <<>>, nonce |-> Undefined,
             redocOptions |-> Undefined]
  /\ safe' = NoSafe
  /\ placed' = NoSafe
  /\ renderedHtml' = <<>>
  /\ result' = <<>>
  /\ UNCHANGED <<escVars, hookVars, mwVars, cacheVars, regVars, metricsVars>>

\* The options of the calls: the plainest ones, and ones with all four
\* values and a replacement pattern in the title.
RepeatedConfigs ==
  {[title |-> <<"T">>, specUrl |-> <<"/", "s">>, nonce |-> Undefined,
    redocOptions |-> Undefined],
   [title |-> <<"$", "&">>, specUrl |-> ScriptClose, nonce |-> <<"n">>,
    redocOptions |-> <<[key |-> <<"k">>, value |-> <<"v">>]>>]}

\* What else goes on between the calls: the registry, a cache plugin and a
\* metrics plugin are used.
OtherPlugins ==
  {[name |-> <<"p">>,
    hooks |-> [isNull |-> FALSE, beforeRender |-> "function",
               afterRender |-> "undefined", onRequest |-> "undefined",
               onError |-> "undefined"]]}


\* The options given to redocHtmlSync and then to redocHtml: without the
\* plugins field, with an empty plugin list and with plugins.
SyncConfigs == RenderCalls \cup RepeatedConfigs

\* redocHtmlSync(c), lines 77-95, as the first call of a caller
FirstRedocHtmlSync(c) == history = <<>> /\ RedocHtmlSync(c)

\* redocHtml(c), lines 41-58, with the options the caller gave to
\* redocHtmlSync before
ThenRedocHtml(c) ==
  /\ Len(history) = 1
  /\ c = history[1].options
  /\ RedocHtml(c)

\* ---------------------------------------------------------------------
\* The cache keys of the hooks' second argument
\* (src/unnamed/part_006, src/tests/plugins/cache.spec.ts).

AB == <<[key |-> <<"a">>, value |-> <<"1">>],
        [key |-> <<"b">>, value |-> <<"2">>]>>

BA == <<[key |-> <<"b">>, value |-> <<"2">>],
        [key |-> <<"a">>, value |-> <<"1">>]>>

\* The options of CacheConfigs, the redocOptions of one of them in the other
\* order, redocOptions with an object in them in two orders, the same with
\* another inner value, a nonce, and a call without options.
KeyConfigs ==
  CacheConfigs \cup
  { [title |-> <<"T">>, specUrl |-> <<"/", "s">>, redocOptions |-> AB],
    [title |-> <<"T">>, specUrl |-> <<"/", "s">>,
     redocOptions |-> <<[key |-> <<"o">>, object |-> AB],
                        [key |-> <<"a">>, value |-> <<"1">>]>>],
    [title |-> <<"T">>, specUrl |-> <<"/", "s">>,
     redocOptions |-> <<[key |-> <<"a">>, value |-> <<"1">>],
                        [key |-> <<"o">>, object |-> BA]>>],
    [title |-> <<"T">>, specUrl |-> <<"/", "s">>,
     redocOptions |-> <<[key |-> <<"a">>, value |-> <<"1">>],
                        [key |-> <<"o">>, object |-> Tail(BA)]>>],
    [title |-> <<"T">>, specUrl |-> <<"/", "s">>, nonce |-> <<"n">>],
    NoOptions }

\* The html of the k-th store of these calls.
KeyHtml(k) == <<"h", DigitOf(k)>>
----------------------------------------------------------------------------
(* The skeleton of the template: the text around the four placeholders,    *)
(* in document order (title, nonce, spec-url, options).                    *)

Seg0 == SubSeq(html, 1, IndexOf(html, PhTitle) - 1)
Seg1 == SubSeq(html, IndexOf(html, PhTitle) + Len(PhTitle),
               IndexOf(html, PhNonce) - 1)
Seg2 == SubSeq(html, IndexOf(html, PhNonce) + Len(PhNonce),
               IndexOf(html, PhSpecUrl) - 1)
Seg3 == SubSeq(html, IndexOf(html, PhSpecUrl) + Len(PhSpecUrl),
               IndexOf(html, PhOptions) - 1)
Seg4 == SubSeq(html, IndexOf(html, PhOptions) + Len(PhOptions), Len(html))

Filled == pc \in {"TemplateFilled", "Done"}

ScriptOpen == <<"<", "s", "c", "r", "i", "p", "t">>

\* C1: each of the four placeholders is substituted exactly once, with its
\* own escaped value, and no later substitution matches or rewrites text an
\* earlier one inserted: the document is the skeleton with the four escaped
\* values in the four holes.
C1_EachPlaceholderOwnValue ==
  Filled =>
    /\ renderedHtml = Seg0 \o safe.title \o Seg1 \o safe.nonce \o Seg2
                      \o safe.specUrl \o Seg3 \o safe.options \o Seg4
    /\ placed = safe

\* C2: the document of a call without plugins holds exactly two "<script".
C2_TwoScriptOpenings ==
  Filled => Count(renderedHtml, ScriptOpen) = 2

InitOpen ==
  <<"R", "e", "d", "o", "c", ".", "i", "n", "i", "t", "(", "\n",
    " ", " ", " ", " ", " ", " ", "\"">>

\* The number of backslashes immediately before position i of v.
RECURSIVE BackslashesBefore(_, _)
BackslashesBefore(v, i) ==
  IF i > 1 /\ v[i - 1] = "\\" THEN 1 + BackslashesBefore(v, i - 1) ELSE 0

\* v cannot end a double-quoted JavaScript string literal holding it: no raw
\* control character, every '"' escaped, and no backslash left to escape the
\* closing quote.
JsLiteralSafe(v) ==
  /\ \A i \in 1..Len(v) : CharCode(v[i]) > 31
  /\ \A i \in 1..Len(v) : v[i] = "\"" => BackslashesBefore(v, i) % 2 = 1
  /\ BackslashesBefore(v, Len(v) + 1) % 2 = 0

\* C3: the text put between the double quotes of the first Redoc.init
\* argument cannot terminate the string literal.
C3_SpecUrlStaysInLiteral ==
  Filled =>
    /\ Contains(renderedHtml, InitOpen \o placed.specUrl \o <<"\"", ",">>)
    /\ JsLiteralSafe(placed.specUrl)

BundleOpen ==
  <<"<", "s", "c", "r", "i", "p", "t", " ", "n", "o", "n", "c", "e", "=", "'">>
NonceAttr == <<"n", "o", "n", "c", "e", "=", "'">>
AposEntity == <<"&", "#", "3", "9", ";">>

\* C5: the nonce is carried as nonce='<value>' on the viewer-bundle script
\* tag only, every "'" of the input is there as &#39;, the value holds no
\* raw "'", "<" or ">", and an omitted nonce renders as nonce=''.
C5_NonceAttribute ==
  Filled =>
    /\ Count(renderedHtml, NonceAttr) = 1
    /\ Contains(renderedHtml,
                BundleOpen \o placed.nonce \o <<"'", " ", "s", "r", "c", "=">>)
    /\ \A i \in 1..Len(placed.nonce) : placed.nonce[i] \notin {"'", "<", ">"}
    /\ Count(placed.nonce, AposEntity) >= Count(NonceOf(cfg), <<"'">>)
    /\ (cfg.nonce = Undefined => placed.nonce = <<>>)

\* C7: outside the four substituted values the document is the template,
\* byte for byte: each piece of the skeleton stands where the lengths of
\* the four escaped values put it.
C7_SkeletonUnchanged ==
  Filled =>
    LET a == Len(Seg0) + Len(safe.title)
        b == a + Len(Seg1) + Len(safe.nonce)
        c == b + Len(Seg2) + Len(safe.specUrl)
        d == c + Len(Seg3) + Len(safe.options)
    IN /\ Len(renderedHtml) = d + Len(Seg4)
       /\ SubSeq(renderedHtml, 1, Len(Seg0)) = Seg0
       /\ SubSeq(renderedHtml, a + 1, a + Len(Seg1)) = Seg1
       /\ SubSeq(renderedHtml, b + 1, b + Len(Seg2)) = Seg2
       /\ SubSeq(renderedHtml, c + 1, c + Len(Seg3)) = Seg3
       /\ SubSeq(renderedHtml, d + 1, d + Len(Seg4)) = Seg4

Doctype ==
  <<"<", "!", "D", "O", "C", "T", "Y", "P", "E", " ", "h", "t", "m", "l", ">">>
Tag(name) == <<"<">> \o name \o <<">">>
EndTag(name) == <<"<", "/">> \o name \o <<">">>
TitleName == <<"t", "i", "t", "l", "e">>
HtmlName == <<"h", "t", "m", "l">>
HeadName == <<"h", "e", "a", "d">>
BodyName == <<"b", "o", "d", "y">>
Mount ==
  <<"<", "d", "i", "v", " ", "i", "d", "=", "\"", "r", "e", "d", "o", "c",
    "-", "c", "o", "n", "t", "a", "i", "n", "e", "r", "\"", ">", "<", "/",
    "d", "i", "v", ">">>

\* C8: the document starts with the doctype and holds exactly one title
\* pair, one mount element and one opening and one closing tag each of
\* html, head and body.
C8_DocumentStructure ==
  Filled =>
    /\ SubSeq(renderedHtml, 1, Len(Doctype)) = Doctype
    /\ Count(renderedHtml, Mount) = 1
    /\ \A name \in {TitleName, HtmlName, HeadName, BodyName} :
         /\ Count(renderedHtml, Tag(name)) = 1
         /\ Count(renderedHtml, EndTag(name)) = 1

----------------------------------------------------------------------------
(* The escapers.                                                           *)

\* s holds "</script>" in some letter case.
HasScriptClose(s) ==
  \E i \in 1..(Len(s) - Len(ScriptClose) + 1) :
    LowerStr(SubSeq(s, i, i + Len(ScriptClose) - 1)) = ScriptClose

\* The string the applied escaper hands to escapeScriptTagContent.
ScriptContent ==
  CASE escFn = "escapeScriptTagContent" -> escIn
    [] escFn = "safeSpecUrl" -> escapeJsString(escIn)
    [] escFn = "safeOptions" -> JSONStringify(OptionsWith(escIn))

\* C4: escapeScriptTagContent(s) holds no "</script>" in any letter case,
\* and is s when s holds none; on a bare string, on the escaped spec URL
\* and on the serialized redocOptions.
C4_NoScriptClosingTag ==
  escFn \in {"escapeScriptTagContent", "safeSpecUrl", "safeOptions"} =>
    /\ ~HasScriptClose(escOut)
    /\ ~HasScriptClose(ScriptContent) => escOut = ScriptContent

\* "</scr</script>ipt></ScRiPt>": nested, adjacent and mixed-case
\* occurrences, each replaced.
C4_Witness ==
  /\ escFn = "escapeScriptTagContent"
  /\ escIn = ScriptCloseNested \o ScriptCloseMixed
  /\ escOut = <<"<", "/", "s", "c", "r">> \o ScriptCloseEscaped
              \o <<"i", "p", "t", ">">> \o ScriptCloseEscaped

MapChars(s, F(_)) == Flatten([i \in 1..Len(s) |-> F(s[i])])

\* The entity of a character in the title: "&", "<" and ">" only.
TitleEntity(c) ==
  CASE c = "&" -> <<"&", "a", "m", "p", ";">>
    [] c = "<" -> <<"&", "l", "t", ";">>
    [] c = ">" -> <<"&", "g", "t", ";">>
    [] OTHER -> <<c>>

\* The entity of a character when the two quotes are escaped as well.
QuotedEntity(c) ==
  CASE c = "\"" -> <<"&", "q", "u", "o", "t", ";">>
    [] c = "'" -> AposEntity
    [] OTHER -> TitleEntity(c)

----------------------------------------------------------------------------
(* The render-hook pipeline                                                *)

\* The chain value as it stands before plugin i; before plugin
\* Len(hplugins) + 1 it is the last value.
ValueBefore(i) == IF i = 1 THEN hhtml ELSE hout[i - 1]

Called(i) == \E k \in 1..Len(hcalls) : hcalls[k].plugin = i

HookCompletes(i) == hplugins[i].hook \in {"returns", "resolves"}
HookFails(i) == hplugins[i].hook \in {"throws", "rejects"}

\* C9: the hooks are called in array order; the callback of plugin i does
\* nothing before every callback before it has settled, so at most one hook
\* is in progress; each hook is called with the chain value as the plugin
\* before it left it; the value a hook returns or resolves with becomes the
\* chain value; a plugin without the hook is not called and leaves the value
\* unchanged; the executor resolves with the last value, and hooks
\* appending -A then -B to x give x-A-B.
C9_HooksInArrayOrder ==
  /\ \A k \in 1..(Len(hcalls) - 1) : hcalls[k].plugin < hcalls[k + 1].plugin
  /\ \A i \in 1..Len(hstatus) :
       hstatus[i] # "waiting" => \A j \in 1..(i - 1) : hstatus[j] = "settled"
  /\ Cardinality({i \in 1..Len(hstatus) : hstatus[i] = "running"}) <= 1
  /\ \A k \in 1..Len(hcalls) : hcalls[k].html = ValueBefore(hcalls[k].plugin)
  /\ \A i \in 1..Len(hstatus) :
       hstatus[i] = "settled" =>
         /\ HookCompletes(i) =>
              /\ Called(i)
              /\ hout[i] = ValueBefore(i) \o <<"-", PluginNames[i]>>
         /\ hplugins[i].hook = "absent" =>
              /\ ~Called(i)
              /\ hout[i] = ValueBefore(i)
  /\ hpc = "Done" =>
       /\ hresult = ValueBefore(Len(hplugins) + 1)
       /\ (Len(hplugins) = 2 /\ HookCompletes(1) /\ HookCompletes(2)) =>
            hresult = <<"x", "-", "A", "-", "B">>

\* An async hook appending -A and a synchronous one appending -B have run
\* on x, in that order.
C9_Witness ==
  /\ hpc = "Done"
  /\ Len(hplugins) = 2
  /\ hplugins[1].hook = "resolves"
  /\ hplugins[2].hook = "returns"
  /\ Len(hcalls) = 2
  /\ hcalls[1] = [hook |-> "beforeRender", plugin |-> 1, html |-> <<"x">>,
                  options |-> "options"]
  /\ hcalls[2].html = <<"x", "-", "A">>
  /\ hresult = <<"x", "-", "A", "-", "B">>

\* The plugins strictly between i and j contribute nothing.
NothingBetween(i, j) ==
  \A m \in (i + 1)..(j - 1) : ~HookCompletes(m)

RECURSIVE Expected(_, _, _)
\* The value of the chain after the first n plugins, a failing hook counting
\* as a plugin without the hook.
Expected(plugins, n, start) ==
  IF n = 0 THEN start
  ELSE IF plugins[n].hook \in {"returns", "resolves"}
       THEN Expected(plugins, n - 1, start) \o <<"-", PluginNames[n]>>
       ELSE Expected(plugins, n - 1, start)

\* C10: a hook that throws or whose promise rejects leaves the chain value
\* as it stood before the hook; the next hook called is called with that
\* value; when the executor returns every plugin that has the hook has been
\* called, and the executor resolves with the value the hooks that completed
\* built; hooks [A throws, B appends -B] on x give x-B.
C10_FaultIsolation ==
  /\ \A i \in 1..Len(hstatus) :
       (hstatus[i] = "settled" /\ HookFails(i)) =>
         /\ Called(i)
         /\ hout[i] = ValueBefore(i)
         /\ \A k \in 1..Len(hcalls) :
              (hcalls[k].plugin > i /\ NothingBetween(i, hcalls[k].plugin)) =>
                hcalls[k].html = ValueBefore(i)
  /\ hpc = "Done" =>
       /\ \A j \in 1..Len(hplugins) : hplugins[j].hook # "absent" => Called(j)
       /\ hresult # Pending
       /\ hresult = Expected(hplugins, Len(hplugins), hhtml)
       /\ (Len(hplugins) = 2 /\ HookFails(1) /\ HookCompletes(2)) =>
            hresult = <<"x", "-", "B">>

\* A hook that threw and a hook whose promise rejected, each followed by a
\* hook that ran on x.
C10_Witness ==
  /\ hpc = "Done"
  /\ Len(hplugins) = 2
  /\ HookFails(1)
  /\ HookCompletes(2)
  /\ Len(hcalls) = 2
  /\ hcalls[2].html = <<"x">>
  /\ hresult = <<"x", "-", "B">>

----------------------------------------------------------------------------
(* A render call with plugins                                              *)

Stages ==
  <<"Initial", "TemplateFilled", "BeforeHooksRunning", "AfterHooksRunning",
    "Done">>

StageNumber(s) == CHOOSE i \in 1..Len(Stages) : Stages[i] = s

IsStage(s) == \E i \in 1..Len(Stages) : Stages[i] = s

StartsWith(s, prefix) ==
  /\ Len(s) >= Len(prefix)
  /\ SubSeq(s, 1, Len(prefix)) = prefix

HookFailed(b) == b \in {"throws", "rejects"}

\* C11: a call of redocHtml is always in one of the five stages and every
\* step leaves it in the same stage or takes it to a later one; once the
\* template is filled the call resolves, with a document that starts with
\* the doctype, whichever hooks throw or reject.
C11_RenderCallOnlyForward ==
  /\ [][/\ IsStage(pc')
        /\ StageNumber(pc) <= StageNumber(pc')]_vars
  /\ (pc = "TemplateFilled") ~> (pc = "Done" /\ StartsWith(result, Doctype))

\* A call with two plugins has resolved although a beforeRender hook and an
\* afterRender hook failed.
C11_Witness ==
  /\ pc = "Done"
  /\ fn = "redocHtml"
  /\ Len(PluginsOf(cfg)) = 2
  /\ \E i \in 1..2 : HookFailed(PluginsOf(cfg)[i].beforeRender)
  /\ \E i \in 1..2 : HookFailed(PluginsOf(cfg)[i].afterRender)
  /\ Len(hcalls) = 4
  /\ StartsWith(result, Doctype)

AfterCalls == {k \in 1..Len(hcalls) : hcalls[k].hook = "afterRender"}

FirstAfterCall == CHOOSE k \in AfterCalls : \A m \in AfterCalls : k <= m

\* The document the complete beforeRender chain of the call gives.
BeforeChainOutput ==
  Expected(HooksOfKind("beforeRender", PluginsOf(cfg)), Len(PluginsOf(cfg)),
           FillTemplate(Escaped(cfg)).html)

\* C12: while a beforeRender callback has not settled no afterRender hook
\* has been called; every afterRender call comes after every beforeRender
\* call, and after the call of every plugin that has a beforeRender hook;
\* the first afterRender hook called is called with the document the
\* complete beforeRender chain gives.
C12_BeforeHooksCompleteFirst ==
  /\ (hkind = "beforeRender" /\ hpc # "Done") => AfterCalls = {}
  /\ pc \in {"Initial", "TemplateFilled", "BeforeHooksRunning"} =>
       AfterCalls = {}
  /\ \A k \in AfterCalls :
       /\ \A m \in 1..Len(hcalls) :
            hcalls[m].hook = "beforeRender" => m < k
       /\ \A i \in 1..Len(PluginsOf(cfg)) :
            PluginsOf(cfg)[i].beforeRender # "absent" =>
              \E m \in 1..(k - 1) :
                hcalls[m].hook = "beforeRender" /\ hcalls[m].plugin = i
  /\ AfterCalls # {} => hcalls[FirstAfterCall].html = BeforeChainOutput

\* An async beforeRender hook and a synchronous one have both appended
\* their piece before the first afterRender hook was called.
C12_Witness ==
  /\ AfterCalls # {}
  /\ Len(PluginsOf(cfg)) = 2
  /\ PluginsOf(cfg)[1].beforeRender = "resolves"
  /\ PluginsOf(cfg)[2].beforeRender = "returns"
  /\ FirstAfterCall = 3
  /\ hcalls[3].html = renderedHtml
  /\ hcalls[3].html = FillTemplate(Escaped(cfg)).html \o <<"-", "A", "-", "B">>
  /\ pc = "AfterHooksRunning"

----------------------------------------------------------------------------
(* The request handler and the onRequest gate                              *)

GatePlugins == 1..Len(PluginsOf(mwOptions))

OnRequestCalled(i) == \E k \in 1..Len(rcalls) : rcalls[k] = i

\* The onRequest hook of plugin i was called and has raised its error: it
\* called its continuation with the error, it threw, or the promise it
\* returned rejected.
OnRequestErrored(i) ==
  /\ i \in GatePlugins
  /\ OnRequestCalled(i)
  /\ \/ OnRequestOf(i) \in {"fails", "throws", "rejects", "advancesThenThrows"}
     \/ OnRequestOf(i) = "failsLater" /\ rstatus[i] = "rejected"

RenderStarted == mpc \in {"Rendering", "Sent"} \/ pc # "Initial"

HtmlSent == res.sent /\ res.type = "html"

\* The handler has nothing left to do for the request.
AtRest ==
  /\ ~(mpc = "Rendering" /\ pc = "Initial")
  /\ ~ENABLED HandlerStep

\* C13: once the onRequest hook of a plugin has signalled an error through
\* its continuation or has thrown, no onRequest hook of a later plugin has
\* been called, the render has not started and no HTML has been sent; and
\* when the handler has come to rest the host's next has been called with
\* that same error.
C13_GateStopsOnError ==
  \A i \in GatePlugins :
    OnRequestErrored(i) =>
      /\ \A j \in GatePlugins : j > i => ~OnRequestCalled(j)
      /\ ~RenderStarted
      /\ ~HtmlSent
      /\ AtRest => hostNext = <<ErrorOf(i)>>

\* The onRequest hook of plugin i has called its continuation without an
\* error.
OnRequestAdvanced(i) ==
  /\ OnRequestCalled(i)
  /\ OnRequestOf(i) \in {"advances", "advancesLater", "advancesThenThrows"}
  /\ rstatus[i] = "resolved"

\* C14: the onRequest hooks are called in array order; when the hook of a
\* plugin is called, every earlier plugin that has an onRequest hook has
\* called its continuation without an error; and the render starts only
\* after every plugin that has an onRequest hook has done so.
C14_GateInArrayOrder ==
  /\ \A k \in 1..(Len(rcalls) - 1) : rcalls[k] < rcalls[k + 1]
  /\ \A k \in 1..Len(rcalls) :
       \A i \in 1..(rcalls[k] - 1) :
         OnRequestOf(i) # "absent" => OnRequestAdvanced(i)
  /\ RenderStarted =>
       \A i \in GatePlugins :
         OnRequestOf(i) # "absent" => OnRequestAdvanced(i)

\* Two onRequest hooks, the first calling its continuation after it
\* returned, have let a request through to the response.
C14_Witness ==
  /\ mpc = "Sent"
  /\ Len(PluginsOf(mwOptions)) = 2
  /\ OnRequestOf(1) = "advancesLater"
  /\ OnRequestOf(2) = "advances"
  /\ rcalls = <<1, 2>>
  /\ HtmlSent

\* An error was raised in the gate or by the render.
RenderRejected == mpc \in {"Rendering", "Forwarded"} /\ pc = "Rejected"

\* C16: the render starts only after the gate has let the request through,
\* and without plugins no gate runs; the HTML sent is the string redocHtml
\* resolved with, and it is sent once redocHtml has resolved; the host's
\* next is called at most once and never when HTML was sent; an error raised
\* in the gate or by the render is forwarded to the host's next, and no HTML
\* is sent then.
C16_RequestHandler ==
  /\ RenderStarted => \A i \in GatePlugins : rstatus[i] = "resolved"
  /\ Len(PluginsOf(mwOptions)) = 0 => rcalls = <<>> /\ rstatus = <<>>
  /\ HtmlSent => pc = "Done" /\ res.body = result
  /\ Len(hostNext) <= 1
  /\ hostNext # <<>> => ~HtmlSent
  /\ (RenderRejected \/ \E i \in GatePlugins : OnRequestErrored(i)) =>
       ~HtmlSent
  /\ AtRest =>
       /\ pc = "Done" => mpc = "Sent" /\ HtmlSent /\ hostNext = <<>>
       /\ RenderRejected => hostNext = <<TypeError>>
       /\ \A i \in GatePlugins :
            OnRequestErrored(i) => hostNext = <<ErrorOf(i)>>

----------------------------------------------------------------------------
(* The onError middleware                                                  *)

OnErrorCalled(i) == \E k \in 1..Len(rcalls) : rcalls[k] = i

\* The onError hook of plugin i was called and has failed: it threw, or it
\* called its continuation with an error.
OnErrorFailed(i) ==
  /\ OnErrorCalled(i)
  /\ \/ OnErrorOf(i) \in {"fails", "throws"}
     \/ OnErrorOf(i) = "failsLater" /\ rstatus[i] = "rejected"

\* C15: the onError hooks are called in array order; the host's next is
\* called at most once and only with the triggering error; after an onError
\* hook has failed no later plugin is passed over without its hook being
\* called, and the handler does not end without calling the host's next;
\* when the handler has ended every plugin that has an onError hook has had
\* it called and the host's next was called once with the triggering error.
C15_OnErrorFaultIsolation ==
  /\ mpc \in {"ErrorHooks", "ErrorForwarded", "ErrorRejected"} =>
       /\ \A k \in 1..(Len(rcalls) - 1) : rcalls[k] < rcalls[k + 1]
       /\ Len(hostNext) <= 1
       /\ \A k \in 1..Len(hostNext) : hostNext[k] = trigger
       /\ \A i \in 1..Len(rstatus) :
            OnErrorFailed(i) =>
              \A j \in (i + 1)..Len(rstatus) :
                (rstatus[j] # "waiting" /\ OnErrorOf(j) # "absent") =>
                  OnErrorCalled(j)
  /\ mpc # "ErrorRejected"
  /\ mpc = "ErrorForwarded" =>
       /\ hostNext = <<trigger>>
       /\ \A i \in 1..Len(rstatus) :
            OnErrorOf(i) # "absent" => OnErrorCalled(i)

----------------------------------------------------------------------------
(* The auth plugin.                                                        *)

\* The username and the password of 'Basic <base64>': the decoded text up to
\* its first colon and the decoded text after it.
HasBasicCredentials(authHeader, username, password) ==
  /\ authHeader # NoValue
  /\ LET parts == Split(authHeader, " ")
     IN /\ Len(parts) = 2
        /\ parts[1] = BasicWord
        /\ LET decoded == Base64Decode(parts[2])
               colon == IndexOf(decoded, <<":">>)
           IN /\ colon > 0
              /\ SubSeq(decoded, 1, colon - 1) = username
              /\ SubSeq(decoded, colon + 1, Len(decoded)) = password

BasicMode ==
  /\ mpc = "AuthReturned"
  /\ AuthConfig.type = "basic"
  /\ AuthConfig.enabled

LetThrough == hostNext = <<NoError>> /\ res = NewResponse

Challenge(scheme) ==
  scheme \o <<" ", "r", "e", "a", "l", "m", "=", "\"">> \o AuthConfig.realm
         \o <<"\"">>

Refused(scheme) ==
  /\ hostNext = <<>>
  /\ res.wwwAuthenticate = Challenge(scheme)
  /\ res.status = 401
  /\ res.body = <<"Unauthorized">>
  /\ res.sent

\* C17: in Basic mode a request is let through (next called, the response
\* untouched) exactly when its Authorization header is 'Basic <base64>' whose
\* decoded username and password are the configured ones; every other
\* request gets WWW-Authenticate: Basic realm="<realm>", status 401 and the
\* body 'Unauthorized', and next is not called.
C17_BasicAuth ==
  BasicMode =>
    IF HasBasicCredentials(req.authorization, AuthConfig.username,
                           AuthConfig.password)
    THEN LetThrough
    ELSE Refused(BasicWord)

C17_Witness ==
  /\ BasicMode
  /\ req.authorization = BasicHeader(<<"a", ":", "b", ":", "c">>)
  /\ AuthConfig.password = <<"b", ":", "c">>

\* The auth plugin at place i was called and refused the request.
AuthRefused(i) ==
  /\ mpc # "NotCreated"
  /\ i \in 1..Len(rstatus)
  /\ IsAuthPlugin(PluginsOf(mwOptions)[i])
  /\ OnRequestCalled(i)
  /\ OnRequestOf(i) \in {"responds", "respondsLater"}
  /\ res.status = 401

AuthDisabled(i) ==
  /\ mpc # "NotCreated"
  /\ i \in 1..Len(rstatus)
  /\ IsAuthPlugin(PluginsOf(mwOptions)[i])
  /\ ~PluginsOf(mwOptions)[i].auth.enabled
  /\ OnRequestCalled(i)

\* C18: once the auth plugin has refused a request inside the middleware
\* its continuation is not called, no later onRequest hook runs, redocHtml
\* is not called, no documentation is sent and the host's next is not
\* called; a disabled auth plugin has called its continuation when its hook
\* returns, whatever the request holds.
C18_AuthStopsRequest ==
  \A i \in 1..Len(rstatus) :
    /\ AuthRefused(i) =>
         /\ rstatus[i] = "running"
         /\ \A j \in i + 1..Len(rstatus) : ~OnRequestCalled(j)
         /\ mpc = "Gate"
         /\ fn = "none"
         /\ pc = "Initial"
         /\ res.type = "none"
         /\ res.body = <<"Unauthorized">>
         /\ hostNext = <<>>
    /\ AuthDisabled(i) => rstatus[i] = "resolved"

C18_Witness ==
  /\ Len(rstatus) = 2
  /\ AuthRefused(1)
  /\ ~AuthDisabled(2)
  /\ req.authorization = BasicHeader(<<"a", ":", "c">>)
  /\ ~ENABLED HandlerStep

C18_WitnessDisabled ==
  /\ AuthDisabled(1)
  /\ req.authorization = NoValue
  /\ mpc = "Sent"

\* The auth plugin at place i is in Custom mode, its predicate answers false,
\* throws or rejects, and its hook was called.
CustomAuthFailed(i) ==
  /\ mpc # "NotCreated"
  /\ i \in 1..Len(rstatus)
  /\ IsAuthPlugin(PluginsOf(mwOptions)[i])
  /\ PluginsOf(mwOptions)[i].auth.type = "custom"
  /\ PluginsOf(mwOptions)[i].auth.customAuth
       \in {"returnsFalse", "resolvesFalse", "throws", "rejects"}
  /\ OnRequestCalled(i)

\* C19: in Custom mode a predicate that throws or whose promise rejects is
\* treated as one that answers false: once the request is dealt with the
\* response is 401 with WWW-Authenticate: Custom realm="<realm>", the
\* continuation was not called, and no error has reached the gate or the
\* host's next.
C19_CustomAuthFailureIsRefusal ==
  \A i \in 1..Len(rstatus) :
    (CustomAuthFailed(i) /\ AtRest) =>
      /\ res.status = 401
      /\ res.wwwAuthenticate =
           CustomWord \o <<" ", "r", "e", "a", "l", "m", "=", "\"">>
                      \o PluginsOf(mwOptions)[i].auth.realm \o <<"\"">>
      /\ res.body = <<"Unauthorized">>
      /\ rstatus[i] = "running"
      /\ rerr[i] = NoError
      /\ hostNext = <<>>

----------------------------------------------------------------------------
(* The cache plugin.                                                       *)

\* The value of a field of the options, the default of the renderer for a
\* field left out.
FieldOf(options, name) ==
  IF name \in DOMAIN options THEN options[name] ELSE <<>>

\* Two options objects with the same title, specUrl, nonce and redocOptions;
\* redocOptions are the same when they hold the same properties.
SameConfig(c, d) ==
  /\ FieldOf(c, "title") = FieldOf(d, "title")
  /\ FieldOf(c, "specUrl") = FieldOf(d, "specUrl")
  /\ FieldOf(c, "nonce") = FieldOf(d, "nonce")
  /\ {FieldOf(c, "redocOptions")[i] :
        i \in 1..Len(FieldOf(c, "redocOptions"))}
     = {FieldOf(d, "redocOptions")[i] :
          i \in 1..Len(FieldOf(d, "redocOptions"))}

\* The calls of afterRender with the options of the last call.
StoresFor(options) ==
  {k \in Stores : SameConfig(clog[k].options, options)}

LastStoreFor(options) ==
  CHOOSE k \in StoresFor(options) : \A j \in StoresFor(options) : j <= k

Looked ==
  /\ cpc = "Returned"
  /\ cacheOptions.enabled
  /\ clog[Len(clog)].hook = "beforeRender"

\* C20: beforeRender(x, c') returns the html h of the last afterRender(h, c)
\* with the title, specUrl, nonce and redocOptions of c' when that entry has
\* not expired, whatever was stored for other options in between, and
\* returns x when nothing was stored for such options.
C20_CachePerConfig ==
  Looked =>
    LET call == clog[Len(clog)]
    IN IF StoresFor(call.options) = {}
       THEN call.returned = call.html
       ELSE LET stored == clog[LastStoreFor(call.options)]
            IN call.at - stored.at <= cacheOptions.ttl =>
                 call.returned = stored.html

----------------------------------------------------------------------------
(* The cache plugin in a render call.                                      *)

RenderReturned ==
  /\ pc = "Done"
  /\ cacheOptions.enabled
  /\ Len(clog) >= 2

\* C21: in a render call with the cache plugin afterRender stores the html
\* under the key beforeRender computed for the options of the call, and the
\* beforeRender of a second call with the same options, made before the
\* entry expires, finds the stored html.
C21_RenderStoresUnderLookupKey ==
  RenderReturned =>
    LET n == Len(clog)
    IN /\ clog[n].key = clog[n - 1].key
       /\ (/\ n >= 4
           /\ SameConfig(clog[n - 1].options, clog[n - 3].options)
           /\ clog[n - 1].at - clog[n - 2].at <= cacheOptions.ttl)
          => clog[n - 1].hit

----------------------------------------------------------------------------
(* validatePlugin and the registry.                                        *)

\* A plugin the claim calls invalid: its name is empty or missing, its hooks
\* object is absent, or one of its hooks is present and is not a function.
InvalidPlugin(plugin) ==
  \/ ~HasField(plugin, "name")
  \/ plugin.name = <<>>
  \/ ~HasField(plugin, "hooks")
  \/ plugin.hooks.isNull
  \/ \E k \in 1..4 :
       plugin.hooks[HookNames[k]] \notin {"undefined", "function"}

\* C22: validatePlugin, called by createPlugin, throws for every plugin
\* whose name is empty or missing, whose hooks object is absent or one of
\* whose hooks is present and is not a function, and accepts every other
\* plugin.
C22_ValidatePlugin ==
  rlast.op = "createPlugin" =>
    (rlast.threw # NoThrow <=> InvalidPlugin(rlast.plugin))

\* A step that is a call of the operation op on the registry.
IsCall(op) == rlast'.op = op /\ <<registry, rlast>>' # <<registry, rlast>>

Registered(plugins, name) == \E i \in 1..Len(plugins) : plugins[i].name = name

PluginOf(plugins, name) ==
  plugins[CHOOSE i \in 1..Len(plugins) : plugins[i].name = name]

\* C23: register(plugin) throws when the plugin is invalid or a plugin of
\* its name is registered, and then leaves the registry as it was;
\* otherwise it stores the plugin, and get(name) returns that plugin.
C23_Register ==
  [][IsCall("register") =>
       \A plugin \in RegistryPlugins : rlast'.plugin = plugin =>
          IF InvalidPlugin(plugin)
          THEN rlast'.threw # NoThrow /\ registry' = registry
          ELSE IF Registered(registry, plugin.name)
          THEN /\ rlast'.threw # NoThrow
               /\ registry' = registry
               /\ PluginOf(registry', plugin.name)
                    = PluginOf(registry, plugin.name)
          ELSE /\ rlast'.threw = NoThrow
               /\ Registered(registry', plugin.name)
               /\ PluginOf(registry', plugin.name) = plugin
               /\ get(plugin.name)' = plugin]_vars

\* C24: unregister(name) returns true exactly when a plugin of the name was
\* registered, never throws, leaves no plugin of the name and every other
\* plugin as it was; a plugin of the name can then be registered.
C24_Unregister ==
  [][/\ IsCall("unregister") =>
          \A name \in PluginNameInputs : rlast'.name = name =>
             /\ rlast'.returned = Registered(registry, name)
             /\ rlast'.threw = NoThrow
             /\ get(name)' = NoPlugin
             /\ ~has(name)'
             /\ registry'
                  = SelectSeq(registry, LAMBDA plugin : plugin.name # name)
     /\ (/\ rlast.op = "unregister"
         /\ IsCall("register")
         /\ rlast'.plugin.name = rlast.name
         /\ validatePlugin(rlast'.plugin) = NoThrow)
        => rlast'.threw = NoThrow /\ Registered(registry', rlast.name)]_vars

C24_Witness ==
  /\ rlast.op = "unregister"
  /\ rlast.returned
  /\ Len(registry) = 1
  /\ ~has(rlast.name)

HasHook(plugin, hookName) == plugin.hooks[hookName] # "undefined"

\* C25: getPluginsWithHook(hookName) holds exactly the registered plugins
\* whose hooks[hookName] is defined, in the order they were registered in: a
\* registration adds the plugin at its end, unregister takes out the plugin
\* of the name, and after clear it and getAll are empty.
C25_GetPluginsWithHook ==
  /\ [](\A k \in 1..4 :
          /\ \A i \in 1..Len(getPluginsWithHook(HookNames[k])) :
               /\ HasHook(getPluginsWithHook(HookNames[k])[i], HookNames[k])
               /\ Registered(registry,
                             getPluginsWithHook(HookNames[k])[i].name)
          /\ \A i \in 1..Len(registry) :
               HasHook(registry[i], HookNames[k]) =>
                 \E j \in 1..Len(getPluginsWithHook(HookNames[k])) :
                   getPluginsWithHook(HookNames[k])[j] = registry[i])
  /\ [][\A k \in 1..4 :
          LET before == getPluginsWithHook(HookNames[k])
              after == getPluginsWithHook(HookNames[k])'
          IN /\ (IsCall("register") /\ rlast'.threw = NoThrow) =>
                  after = IF HasHook(rlast'.plugin, HookNames[k])
                          THEN Append(before, rlast'.plugin) ELSE before
             /\ (IsCall("register") /\ rlast'.threw # NoThrow) =>
                  after = before
             /\ IsCall("unregister") =>
                  after = SelectSeq(before,
                                    LAMBDA plugin : plugin.name # rlast'.name)
             /\ IsCall("clear") => after = <<>> /\ getAll' = <<>>]_vars

C25_Witness ==
  /\ Len(getPluginsWithHook("beforeRender")) = 2
  /\ Len(getPluginsWithHook("onError")) = 1
  /\ getPluginsWithHook("beforeRender")[1].name = <<"q">>

RECURSIVE SumOfCounts(_, _)
SumOfCounts(counts, names) ==
  IF names = {} THEN 0
  ELSE LET name == CHOOSE n \in names : TRUE
       IN counts[name] + SumOfCounts(counts, names \ {name})

\* A step in which the caller of getMetrics changes the array it was given
\* or an element of it.
CopyMutated ==
  /\ mop'.op \in {"copyShift", "copyWrite"}
  /\ metricsVars' # metricsVars

\* C26: after n finished requests, n at most the cap, totalRequests is n;
\* the counts of methodCounts, one for each method of a stored metric, sum
\* to totalRequests; lastRequest is the metric that finished last; with no
\* metric totalRequests and avgResponseTime are 0; after clearMetrics
\* getMetrics is empty; and a change made to the array getMetrics returned
\* changes nothing of what the collector holds.
C26_MetricsStatistics ==
  /\ [](/\ Len(finished) <= maxMetrics =>
             getStats.totalRequests = Len(finished)
        /\ SumOfCounts(getStats.methodCounts, DOMAIN getStats.methodCounts)
             = getStats.totalRequests
        /\ \A method \in DOMAIN getStats.methodCounts :
             getStats.methodCounts[method] >= 1
        /\ finished # <<>> =>
             getStats.lastRequest = finished[Len(finished)]
        /\ finished = <<>> =>
             getStats.totalRequests = 0 /\ getStats.avgResponseTime = 0
        /\ mop.op = "clearMetrics" => getMetrics = <<>>)
  /\ [][CopyMutated => getMetrics' = getMetrics /\ getStats' = getStats]_vars

\* The value of a hexadecimal digit, -1 for any other character.
HexValue(c) ==
  LET lower == <<"0", "1", "2", "3", "4", "5", "6", "7", "8", "9",
                 "a", "b", "c", "d", "e", "f">>
      upper == <<"0", "1", "2", "3", "4", "5", "6", "7", "8", "9",
                 "A", "B", "C", "D", "E", "F">>
  IN IF \E i \in 1..16 : lower[i] = c
     THEN (CHOOSE i \in 1..16 : lower[i] = c) - 1
     ELSE IF \E i \in 1..16 : upper[i] = c
     THEN (CHOOSE i \in 1..16 : upper[i] = c) - 1
     ELSE -1

\* The character of a code, for the codes of the characters of the model.
CharOfCode(code) ==
  CASE code = 9 -> "\t"
    [] code = 10 -> "\n"
    [] code = 13 -> "\r"
    [] code = 1 -> Ctl01
    [] code = 31 -> Ctl1F
    [] code = 60 -> "<"
    [] OTHER -> "U+FFFD"

SyntaxError == <<"SyntaxError">>

Cons(c, rest) == IF rest = SyntaxError THEN SyntaxError ELSE <<c>> \o rest

RECURSIVE EvalJsStringLiteral(_)
\* The string value of the JavaScript literal made of a double quote, body
\* and a double quote (ECMAScript, String Literals): a line terminator or
\* a double quote that is not escaped ends the literal early and is a
\* syntax error; \n, \r and \t are the characters they name, \xHH and
\* \uHHHH the character of the code, a backslash before any other
\* character is that character.
EvalJsStringLiteral(body) ==
  IF body = <<>> THEN <<>>
  ELSE IF Head(body) \in {"\"", "\n", "\r"} THEN SyntaxError
  ELSE IF Head(body) # "\\"
  THEN Cons(Head(body), EvalJsStringLiteral(Tail(body)))
  ELSE IF Len(body) < 2 THEN SyntaxError
  ELSE LET e == body[2]
           rest(n) == EvalJsStringLiteral(SubSeq(body, n, Len(body)))
       IN CASE e = "n" -> Cons("\n", rest(3))
            [] e = "r" -> Cons("\r", rest(3))
            [] e = "t" -> Cons("\t", rest(3))
            [] e = "x" ->
                 IF Len(body) >= 4 /\ HexValue(body[3]) >= 0
                                   /\ HexValue(body[4]) >= 0
                 THEN Cons(CharOfCode(16 * HexValue(body[3])
                                      + HexValue(body[4])), rest(5))
                 ELSE SyntaxError
            [] e = "u" ->
                 IF Len(body) >= 6 /\ \A i \in 3..6 : HexValue(body[i]) >= 0
                 THEN Cons(CharOfCode(4096 * HexValue(body[3])
                                      + 256 * HexValue(body[4])
                                      + 16 * HexValue(body[5])
                                      + HexValue(body[6])), rest(7))
                 ELSE SyntaxError
            [] e \in {"\n", "\r"} -> rest(3)
            [] OTHER -> Cons(e, rest(3))

\* What the claim says one character becomes.
Rewritten(c) ==
  CASE c = "\\" -> <<"\\", "\\">>
    [] c = "\"" -> <<"\\", "\"">>
    [] c = "\n" -> <<"\\", "n">>
    [] c = "\r" -> <<"\\", "r">>
    [] c = "\t" -> <<"\\", "t">>
    [] c = Ctl01 -> <<"\\", "x", "0", "1">>
    [] c = Ctl1F -> <<"\\", "x", "1", "f">>
    [] OTHER -> <<c>>

\* C27: the double-quoted literal of escapeJsString(s) evaluates to s;
\* backslash, double quote, newline, carriage return, tab and the other
\* control characters (as \xHH) are the only characters rewritten, every
\* other character is kept, and the empty string gives the empty string.
C27_EscapeJsStringRoundTrip ==
  escFn = "escapeJsString" =>
    /\ EvalJsStringLiteral(escOut) = escIn
    /\ escOut = Flatten([i \in 1..Len(escIn) |-> Rewritten(escIn[i])])
    /\ escIn = <<>> => escOut = <<>>

C27_Witness ==
  /\ escFn = "escapeJsString"
  /\ escIn = <<"\\", "\"", Ctl1F>>
  /\ escOut = <<"\\", "\\", "\\", "\"", "\\", "x", "1", "f">>

C27_WitnessEmpty ==
  /\ escFn = "escapeJsString"
  /\ escIn = <<>>

SameFour(a, b) ==
  /\ a.title = b.title
  /\ a.specUrl = b.specUrl
  /\ a.nonce = b.nonce
  /\ a.redocOptions = b.redocOptions

RECURSIVE LiteralBody(_)
\* The text of a double-quoted literal whose opening quote came just before
\* s: up to the first double quote that no backslash escapes.
LiteralBody(s) ==
  IF s = <<>> \/ Head(s) = "\"" THEN <<>>
  ELSE IF Head(s) = "\\" /\ Len(s) >= 2
  THEN <<s[1], s[2]>> \o LiteralBody(SubSeq(s, 3, Len(s)))
  ELSE <<Head(s)>> \o LiteralBody(Tail(s))

\* The literal that is the first argument of Redoc.init in a document.
InitArgument(doc) ==
  LET at == IndexOf(doc, InitOpen)
  IN LiteralBody(SubSeq(doc, at + Len(InitOpen), Len(doc)))

\* C29: the first argument of Redoc.init in the document of redocHtml is a
\* double-quoted literal whose value, as JavaScript evaluates it, is the
\* specUrl of the call, character for character.
C29_SpecUrlValuePreserved ==
  (pc = "Done" /\ fn = "redocHtml") =>
    EvalJsStringLiteral(InitArgument(result)) = cfg.specUrl

RECURSIVE SumOfSizes(_)
SumOfSizes(entries) ==
  IF entries = <<>> THEN 0
  ELSE Len(Head(entries).html) + SumOfSizes(Tail(entries))

\* The last call on the cache plugin was a write of afterRender.
JustWritten ==
  /\ clog # <<>>
  /\ clog[Len(clog)].hook = "afterRender"
  /\ cacheOptions.enabled

\* C30: after every write the byte sizes of the stored entries sum to at
\* most maxSize, unless the entry just written is the only entry.
C30_CacheByteBudget ==
  JustWritten =>
    \/ SumOfSizes(cache.entries) <= cacheOptions.maxSize
    \/ Len(cache.entries) = 1

\* The keys of the entries of the cache.
StoredKeys == {cache.entries[i].key : i \in 1..Len(cache.entries)}

\* C31: the size the cache records is the sum of the byte sizes of the
\* entries it holds, and the number of its entries is the number of the
\* distinct keys stored.
C31_CacheSizeAccounting ==
  cpc # "NotCreated" =>
    /\ cache.currentSize = SumOfSizes(cache.entries)
    /\ Len(cache.entries) = Cardinality(StoredKeys)

\* A step that is a call of beforeRender on an enabled cache plugin.
ReadStep ==
  /\ Len(clog') = Len(clog) + 1
  /\ clog'[Len(clog')].hook = "beforeRender"
  /\ cacheOptions.enabled

\* C32: a read returns the entry of its key when the age of the entry is
\* within the TTL and leaves the cache as it is; when the age exceeds the
\* TTL the read returns the html given, removes the entry and releases its
\* size; a read of a key without entry returns the html given; and the
\* passing of time alone removes no entry.
C32_LazyExpiry ==
  /\ [][ReadStep =>
          LET call == clog'[Len(clog')]
              i == EntryIndex(cache.entries, call.key)
          IN IF i = 0
             THEN call.returned = call.html /\ cache' = cache
             ELSE IF call.at - cache.entries[i].timestamp > cacheOptions.ttl
             THEN /\ call.returned = call.html
                  /\ cache'.entries = MapDelete(cache.entries, i)
                  /\ cache'.currentSize
                       = cache.currentSize - cache.entries[i].size
             ELSE /\ call.returned = cache.entries[i].html
                  /\ cache' = cache]_vars
  /\ [][now' # now => cache' = cache]_vars


\* ---------------------------------------------------------------------
\* C33

RECURSIVE Content(_)
\* What an object holds, whatever the order of its properties.
Content(obj) ==
  {IF "object" \in DOMAIN obj[i]
   THEN [key |-> obj[i].key, object |-> Content(obj[i].object)]
   ELSE [key |-> obj[i].key, value |-> obj[i].value] : i \in 1..Len(obj)}

\* The four fields of a configuration, an omitted nonce read as '' and
\* omitted redocOptions as {}.
FourFields(options) ==
  <<CacheField(options, "title", <<>>),
    CacheField(options, "specUrl", <<>>),
    CacheField(options, "nonce", <<>>),
    Content(CacheField(options, "redocOptions", <<>>))>>

FieldsThatDiffer(a, b) ==
  {f \in 1..4 : FourFields(a)[f] # FourFields(b)[f]}

WithOptions == {i \in 1..Len(clog) : clog[i].options # NoOptions}

\* C33: the key of a hook call does not depend on the order of the keys of
\* redocOptions at any nesting level, an omitted nonce or omitted
\* redocOptions give the key of '' and {}, two configurations that differ in
\* one field have different keys, and a call without a configuration uses
\* the one legacy key, afterRender and beforeRender alike, under which the
\* stored page is kept.
C33_KeyDerivation ==
  /\ \A i \in WithOptions : \A j \in WithOptions :
       /\ FieldsThatDiffer(clog[i].options, clog[j].options) = {}
            => clog[i].key = clog[j].key
       /\ Cardinality(FieldsThatDiffer(clog[i].options, clog[j].options)) = 1
            => clog[i].key # clog[j].key
  /\ \A i \in 1..Len(clog) :
       /\ clog[i].options = NoOptions => clog[i].key = LEGACY_CACHE_KEY
       /\ clog[i].hook = "afterRender" => clog[i].key \in StoredKeys
       /\ clog[i].hook = "beforeRender"
            => clog[i].hit = (clog[i].key \in StoredKeys)

\* A page stored with redocOptions that hold an object is served to a
\* lookup that writes the same redocOptions in another order at both levels,
\* and a page stored without options is served to a lookup without options.
C33_Witness ==
  /\ Len(clog) = 3
  /\ clog[1].hook = "afterRender" /\ clog[2].hook = "afterRender"
  /\ clog[3].hook = "beforeRender"
  /\ clog[1].options # NoOptions /\ clog[3].options # NoOptions
  /\ clog[1].options # clog[3].options
  /\ "redocOptions" \in DOMAIN clog[1].options
  /\ \E p \in 1..Len(clog[1].options.redocOptions) :
       "object" \in DOMAIN clog[1].options.redocOptions[p]
  /\ FieldsThatDiffer(clog[1].options, clog[3].options) = {}
  /\ clog[3].returned = clog[1].html
  /\ clog[2].options = NoOptions
  /\ LEGACY_CACHE_KEY \in StoredKeys

\* The same for the defaults and the legacy key: options without nonce and
\* redocOptions served from a store that wrote them out, after a store
\* without options.
C33_Defaults ==
  /\ Len(clog) = 3
  /\ clog[1].options = NoOptions
  /\ clog[2].hook = "afterRender" /\ clog[3].hook = "beforeRender"
  /\ clog[2].options # NoOptions /\ clog[3].options # NoOptions
  /\ "nonce" \in DOMAIN clog[2].options
  /\ "nonce" \notin DOMAIN clog[3].options
  /\ "redocOptions" \notin DOMAIN clog[3].options
  /\ clog[3].returned = clog[2].html

\* ---------------------------------------------------------------------
\* C34

\* The decoded credentials of a header 'Basic <base64>'.
DecodedCredentials(authHeader) == Base64Decode(Split(authHeader, " ")[2])

\* C34: in Basic mode the username parseBasicAuth returns is the decoded text
\* before the first ':' and the password is everything after that ':', and a
\* request that carries exactly the configured username and password, a
\* password that holds ':' included, is let through.
C34_SplitOnce ==
  (BasicMode /\ req.authorization # NoValue
     /\ ~parseBasicAuth(req.authorization).isNull) =>
    LET decoded == DecodedCredentials(req.authorization)
        colon == IndexOf(decoded, <<":">>)
        parsed == parseBasicAuth(req.authorization)
    IN /\ colon > 0 =>
            /\ parsed.username = SubSeq(decoded, 1, colon - 1)
            /\ parsed.password = SubSeq(decoded, colon + 1, Len(decoded))
       /\ HasBasicCredentials(req.authorization, AuthConfig.username,
                              AuthConfig.password) => LetThrough

\* ---------------------------------------------------------------------
\* C35

\* The last n elements of a sequence.
LastOf(seq, n) == SubSeq(seq, Len(seq) - n + 1, Len(seq))

Smaller(a, b) == IF a < b THEN a ELSE b

\* A response finished and its metric was added.
Completion ==
  /\ mop'.op = "finish"
  /\ Len(finished') = Len(finished) + 1

\* C35: after any sequence of finished requests and clearMetrics calls the
\* buffer holds at most maxMetrics metrics, and they are the most recent
\* completions since the last clearMetrics in the order they completed; a
\* completion that finds the buffer full drops exactly its oldest metric and
\* adds the new one at the end.
C35_BoundedFifo ==
  /\ [](/\ Len(metrics) <= maxMetrics
        /\ metrics = LastOf(finished, Smaller(Len(finished), maxMetrics)))
  /\ [][Completion =>
          LET added == finished'[Len(finished')]
          IN IF Len(metrics) = maxMetrics
             THEN metrics' = Tail(metrics) \o <<added>>
             ELSE metrics' = metrics \o <<added>>]_vars

\* More requests have completed than the buffer holds: the oldest is gone.
C35_Witness ==
  /\ Len(finished) = maxMetrics + 1
  /\ Len(metrics) = maxMetrics
  /\ metrics = Tail(finished)
  /\ mop.op = "finish"

\* ---------------------------------------------------------------------
\* C36

\* The hook has run and the predicate of a custom plugin, if it was called,
\* has settled or thrown.
AuthSettled == mpc \in {"AuthReturned", "AuthThrew"}

ContinuationCalledOnce == hostNext = <<NoError>>

UnauthorizedSent == res.sent /\ res.status = 401

\* C36: for every configuration of the auth plugin and every request, once
\* the hook has run and the custom predicate has settled, either the
\* continuation was called once without an error and nothing was sent, or
\* 401 was sent and the continuation was not called: one of the two, never
\* both and never neither.
C36_AuthOutcomeExclusive ==
  AuthSettled =>
    \/ ContinuationCalledOnce /\ res = NewResponse
    \/ UnauthorizedSent /\ hostNext = <<>>

\* ---------------------------------------------------------------------
\* C37

\* The continuation of plugin i is called once more.
CalledAgain(i) ==
  /\ Len(continued') = Len(continued) + 1
  /\ continued'[Len(continued')].plugin = i
  /\ CallsMade(i) >= 1

\* The first call of the continuation of plugin i.
FirstCallOf(i) ==
  continued[CHOOSE k \in 1..Len(continued) :
              /\ continued[k].plugin = i
              /\ \A j \in 1..(k - 1) : continued[j].plugin # i]

\* The gate is behind: the render has begun or the host's next was called.
GatePassed == mpc \in {"Rendering", "Sent", "Forwarded"}

\* C37: only the first call of the continuation given to an onRequest hook
\* counts: a later call, with or without an error, changes nothing of the
\* gate, of the response or of the calls of the host's next, and the promise
\* of the hook is settled as the first call settled it; the onRequest hook of
\* a plugin is invoked at most once for a request; and the gate is left at
\* most once, for the render or for one call of the host's next with the
\* error.
C37_ContinuationSingleShot ==
  /\ [][\A i \in 1..MaxPlugins : CalledAgain(i) =>
          /\ rstatus' = rstatus /\ rerr' = rerr
          /\ mpc' = mpc /\ res' = res /\ hostNext' = hostNext
          /\ rcalls' = rcalls /\ renderVars' = renderVars]_vars
  /\ [](\A i \in 1..Len(rstatus) :
          CallsMade(i) >= 1 =>
            /\ rstatus[i] = IF FirstCallOf(i).err = NoError
                            THEN "resolved" ELSE "rejected"
            /\ rerr[i] = FirstCallOf(i).err)
  /\ [](\A k \in 1..Len(rcalls) : \A j \in 1..Len(rcalls) :
          rcalls[k] = rcalls[j] => k = j)
  /\ [](Len(hostNext) <= 1 /\ (hostNext # <<>> => hostNext[1] # NoError))
  /\ [][GatePassed =>
          /\ mpc' # "Gate"
          /\ (mpc' = "Rendering" => mpc = "Rendering")
          /\ (pc' = "Initial" => pc = "Initial")
          /\ (hostNext' # hostNext => hostNext = <<>> /\ ~res.sent)]_vars

\* A hook called its continuation without an error, the render ran and the
\* HTML was sent, and then the hook called its continuation with an error.
C37_Witness ==
  /\ mpc = "Sent"
  /\ \E k \in 1..Len(continued) :
       /\ continued[k].err # NoError
       /\ \E j \in 1..(k - 1) :
            /\ continued[j].plugin = continued[k].plugin
            /\ continued[j].err = NoError
  /\ hostNext = <<>>
  /\ Len(continued) >= 3

\* ---------------------------------------------------------------------
\* C38

\* The options call c was made with.
OptionsOfCall(c) == EntryOf(c, "beforeRender").options

\* C38: whatever the interleaving of the render calls that share the cache
\* plugin, a call resolves to the html rendered for its own options, and to
\* the html rendered for the options of no other call that differ from its
\* own in the title, the specUrl, the nonce or the redocOptions.
C38_CrossConfigIsolation ==
  \A c \in Returned :
    /\ EntryOf(c, "afterRender").returned = Rendered(OptionsOfCall(c))
    /\ \A d \in Begun :
         FieldsThatDiffer(OptionsOfCall(c), OptionsOfCall(d)) # {}
           => EntryOf(c, "afterRender").returned # Rendered(OptionsOfCall(d))

\* Two calls with different options, the second begun before the first
\* returned, have both resolved, and the cache holds a page.
C38_Witness ==
  /\ cacheOptions.enabled
  /\ Len(clog) >= 4
  /\ clog[1].hook = "beforeRender" /\ clog[2].hook = "beforeRender"
  /\ clog[1].call # clog[2].call
  /\ FieldsThatDiffer(clog[1].options, clog[2].options) # {}
  /\ Returned = {1, 2}
  /\ cache.entries # <<>>

\* ---------------------------------------------------------------------
\* C39

\* redocHtml runs, or has run, with the options redocHtmlSync was given
\* before.
SameOptionsAgain ==
  /\ Len(history) = 1
  /\ history[1].fn = "redocHtmlSync"
  /\ fn = "redocHtml"
  /\ cfg = history[1].options

BeforeRenderCalls == {k \in 1..Len(hcalls) : hcalls[k].hook = "beforeRender"}

\* C39: for options without plugins or with an empty plugin list redocHtml
\* resolves to the string redocHtmlSync returned for the same options and no
\* hook is called; with plugins the first beforeRender hook that is called
\* is given that string.
C39_SyncAgreesWithAsync ==
  SameOptionsAgain =>
    /\ (Len(PluginsOf(cfg)) = 0 /\ pc = "Done") =>
          result = history[1].returned
    /\ Len(PluginsOf(cfg)) = 0 => hcalls = <<>>
    /\ \A k \in BeforeRenderCalls :
         (\A j \in BeforeRenderCalls : k <= j) =>
           hcalls[k].html = history[1].returned

\* redocHtml has resolved for options with a title that is escaped and two
\* plugins, the second of which has the first beforeRender hook.
C39_Witness ==
  /\ SameOptionsAgain
  /\ pc = "Done"
  /\ cfg.title = <<"<">>
  /\ Len(PluginsOf(cfg)) = 2
  /\ BeforeRenderCalls # {}
  /\ \A k \in BeforeRenderCalls : hcalls[k].plugin = 2
  /\ result # history[1].returned

\* The same for options without the plugins field.
C39_WithoutPlugins ==
  /\ SameOptionsAgain
  /\ pc = "Done"
  /\ "plugins" \notin DOMAIN cfg
  /\ cfg.title = <<"$", "&">>
  /\ result = history[1].returned

\* ---------------------------------------------------------------------
\* C40

\* The rendering middleware has sent the html of the render.
DocumentSent == mpc = "Sent"

\* C40: for a request the handler sends the rendered html once or calls the
\* host's next once with an error, and not both: the host's next is called
\* at most once, never without an error and never once the html was sent,
\* no html is sent once the host's next was called, and after either
\* outcome the handler does nothing more to the response or to the host's
\* next.
C40_OneTerminalOutcome ==
  /\ [](/\ Len(hostNext) <= 1
        /\ \A k \in 1..Len(hostNext) : hostNext[k] # NoError
        /\ ~(DocumentSent /\ hostNext # <<>>)
        /\ DocumentSent => res.sent /\ res.type = "html" /\ res.body = result
        /\ hostNext # <<>> => mpc = "Forwarded" /\ ~HtmlSent)
  /\ [][(DocumentSent \/ hostNext # <<>>) =>
          /\ hostNext' = hostNext /\ res' = res /\ mpc' = mpc]_vars

\* The html was sent after the onRequest hooks of two plugins advanced.
C40_Witness ==
  /\ DocumentSent
  /\ Len(rcalls) = 2
  /\ res.body = result
  /\ result # <<>>
  /\ hostNext = <<>>

\* The render was rejected behind the gate and the host's next has the
\* error; nothing was sent.
C40_Forwarded ==
  /\ mpc = "Forwarded"
  /\ hostNext = <<TypeError>>
  /\ rcalls # <<>>
  /\ ~res.sent
----------------------------------------------------------------------------
(* Specifications.                                                         *)

RenderIdle ==
  /\ pc = "Initial"
  /\ fn = "none"
  /\ cfg = [title |-> <<>>, specUrl |-> <<>>, nonce |-> Undefined,
            redocOptions |-> Undefined]
  /\ safe = NoSafe
  /\ placed = NoSafe
  /\ renderedHtml = <<>>
  /\ result = <<>>

EscIdle ==
  /\ escIn = <<>>
  /\ escFn = "none"
  /\ escOut = <<>>

HooksIdle ==
  /\ hpc = "Initial"
  /\ hkind = "none"
  /\ hhtml = <<>>
  /\ hplugins = <<>>
  /\ hstatus = <<>>
  /\ hout = <<>>
  /\ hcalls = <<>>
  /\ hresult = Pending

MwIdle ==
  /\ mpc = "NotCreated"
  /\ mwOptions = [specUrl |-> <<>>, nonce |-> Undefined,
                  redocOptions |-> Undefined, plugins |-> <<>>]
  /\ req = [authorization |-> NoHeader]
  /\ res = NewResponse
  /\ rstatus = <<>>
  /\ rerr = <<>>
  /\ rcalls = <<>>
  /\ hostNext = <<>>
  /\ trigger = NoError
  /\ continued = <<>>

CacheIdle ==
  /\ cpc = "NotCreated"
  /\ cacheOptions = CacheDefaults([enabled |-> TRUE])
  /\ cache = [entries |-> <<>>, currentSize |-> 0]
  /\ now = 0
  /\ clog = <<>>

RegistryIdle ==
  /\ registry = <<>>
  /\ rlast = [op |-> "none", threw |-> NoThrow]

CallsIdle == history = <<>>

MetricsIdle ==
  /\ mop = [op |-> "NotCreated", next |-> FALSE]
  /\ metricsOptions = [enabled |-> TRUE, onMetric |-> FALSE]
  /\ heap = <<>>
  /\ metrics = <<>>
  /\ listening = {}
  /\ mtime = 0
  /\ copy = <<>>
  /\ notified = <<>>
  /\ finished = <<>>

\* One render call without plugins, by redocHtml or redocHtmlSync.
Init == RenderIdle /\ EscIdle /\ HooksIdle /\ MwIdle /\ CacheIdle /\ RegistryIdle /\ MetricsIdle /\ CallsIdle

Next ==
  \/ Call(RedocHtml)
  \/ Call(RedocHtmlSync)
  \/ ReturnHtml

Spec == Init /\ [][Next]_vars

\* One escaper applied to one input string.
InitEscape ==
  /\ RenderIdle
  /\ escIn \in EscInputs
  /\ escFn = "none"
  /\ escOut = <<>>
  /\ HooksIdle
  /\ MwIdle
  /\ CacheIdle
  /\ RegistryIdle /\ MetricsIdle /\ CallsIdle

NextEscape ==
  \/ ApplyEscapeJsString
  \/ ApplyEscapeScriptTagContent
  \/ ApplySafeTitle
  \/ ApplySafeSpecUrl
  \/ ApplySafeNonce
  \/ ApplySafeOptions

SpecEscape == InitEscape /\ [][NextEscape]_vars

\* One run of a hook executor on the html "x".
InitHooks == RenderIdle /\ EscIdle /\ HooksIdle /\ MwIdle /\ CacheIdle /\ RegistryIdle /\ MetricsIdle /\ CallsIdle

NextHooks ==
  \/ \E plugins \in PluginArrays : executeBeforeRenderHooks(<<"x">>, plugins)
  \/ \E plugins \in PluginArrays : executeAfterRenderHooks(<<"x">>, plugins)
  \/ \E i \in 1..Len(hplugins) : PassThrough(i)
  \/ \E i \in 1..Len(hplugins) : CallSyncHook(i)
  \/ \E i \in 1..Len(hplugins) : CallAsyncHook(i)
  \/ \E i \in 1..Len(hplugins) : HookSettles(i)
  \/ HooksReturn

SpecHooks == InitHooks /\ [][NextHooks]_vars


\* One call of redocHtml with plugins.
InitRender == RenderIdle /\ EscIdle /\ HooksIdle /\ MwIdle /\ CacheIdle /\ RegistryIdle /\ MetricsIdle /\ CallsIdle

NextRender ==
  \/ \E c \in RenderCalls : RedocHtml(c)
  \/ RenderStep

\* Every continuation that is ready runs, and every hook that was called
\* settles.
SpecRender == InitRender /\ [][NextRender]_vars /\ WF_vars(RenderStep)

\* One middleware and one request.
InitMiddleware == RenderIdle /\ EscIdle /\ HooksIdle /\ MwIdle /\ CacheIdle /\ RegistryIdle /\ MetricsIdle /\ CallsIdle

NextMiddleware ==
  \/ \E options \in MwOptions : redocExpressMiddleware(options)
  \/ \E r \in Requests : HandleRequest(r)
  \/ MiddlewareStep

SpecMiddleware == InitMiddleware /\ [][NextMiddleware]_vars

\* One onError middleware and one error given to it.
InitOnError == RenderIdle /\ EscIdle /\ HooksIdle /\ MwIdle /\ CacheIdle /\ RegistryIdle /\ MetricsIdle /\ CallsIdle

NextOnError ==
  \/ \E plugins \in OnErrorPluginArrays : createOnErrorMiddleware(plugins)
  \/ \E error \in TriggeringErrors : HandleError(error)
  \/ \E i \in 1..Len(rstatus) : OnErrorCallback(i)
  \/ \E i \in 1..Len(rstatus) : OnErrorContinuation(i)
  \/ \E i \in 1..Len(rstatus) : OnErrorSkipped(i)
  \/ ErrorNext
  \/ ErrorHandlerRejects

SpecOnError == InitOnError /\ [][NextOnError]_vars

\* One auth plugin and one call of its onRequest hook.
InitAuth == RenderIdle /\ EscIdle /\ HooksIdle /\ MwIdle /\ CacheIdle /\ RegistryIdle /\ MetricsIdle /\ CallsIdle

NextAuth ==
  \/ \E options \in AuthOptions : authPlugin(options)
  \/ \E r \in AuthRequests : AuthOnRequestCall(r)
  \/ AuthCustomSettles

SpecAuth == InitAuth /\ [][NextAuth]_vars

\* One middleware with an auth plugin and one request.
InitAuthMiddleware == RenderIdle /\ EscIdle /\ HooksIdle /\ MwIdle /\ CacheIdle /\ RegistryIdle /\ MetricsIdle /\ CallsIdle

NextAuthMiddleware ==
  \/ \E options \in AuthMwOptions : redocExpressMiddleware(options)
  \/ \E r \in AuthMwRequests : HandleRequest(r)
  \/ MiddlewareStep

SpecAuthMiddleware == InitAuthMiddleware /\ [][NextAuthMiddleware]_vars

\* One cache plugin, calls of its afterRender hook and one call of its
\* beforeRender hook.
InitCache == RenderIdle /\ EscIdle /\ HooksIdle /\ MwIdle /\ CacheIdle /\ RegistryIdle /\ MetricsIdle /\ CallsIdle

NextCache ==
  \/ \E options \in CachePluginOptions : cachePlugin(options)
  \/ \E options \in CacheConfigs :
       \E page \in StoredHtml(Cardinality(Stores) + 1) :
         CacheAfterRender(page, options)
  \/ \E options \in CacheConfigs : CacheBeforeRender(<<"x">>, options)
  \/ \E d \in TickSteps : Tick(d)

SpecCache == InitCache /\ [][NextCache]_vars

\* One middleware whose plugins call their continuations any number of
\* times, and one request.
InitGate ==
  RenderIdle /\ EscIdle /\ HooksIdle /\ MwIdle /\ CacheIdle
  /\ RegistryIdle /\ MetricsIdle /\ CallsIdle

NextGate ==
  \/ \E options \in GateOptions : redocExpressMiddleware(options)
  \/ \E r \in Requests : HandleRequest(r)
  \/ MiddlewareStep
  \/ \E i \in 1..MaxPlugins : OnRequestCallsAgain(i)

SpecGate == InitGate /\ [][NextGate]_vars

\* One cache plugin with its default options, calls of its afterRender hook
\* and one call of its beforeRender hook, with and without options.
InitCacheKey ==
  RenderIdle /\ EscIdle /\ HooksIdle /\ MwIdle /\ CacheIdle
  /\ RegistryIdle /\ MetricsIdle /\ CallsIdle

NextCacheKey ==
  \/ cachePlugin([enabled |-> TRUE])
  \/ \E options \in KeyConfigs :
       CacheAfterRender(KeyHtml(Cardinality(Stores) + 1), options)
  \/ \E options \in KeyConfigs : CacheBeforeRender(<<"x">>, options)

SpecCacheKey == InitCacheKey /\ [][NextCacheKey]_vars

\* One cache plugin in the plugins of render calls.
InitCachedRender ==
  RenderIdle /\ EscIdle /\ HooksIdle /\ MwIdle /\ CacheIdle
  /\ RegistryIdle /\ MetricsIdle /\ CallsIdle

NextCachedRender ==
  \/ \E options \in CachePluginOptions : cachePlugin(options)
  \/ \E options \in CachedRenderConfigs : RenderWithCacheBegins(options)
  \/ RenderWithCacheReturns
  \/ \E d \in TickSteps : Tick(d)

SpecCachedRender == InitCachedRender /\ [][NextCachedRender]_vars

\* Render calls that share one cache plugin and run at the same time, the
\* clock standing still.
InitConcurrentRender ==
  RenderIdle /\ EscIdle /\ HooksIdle /\ MwIdle /\ CacheIdle
  /\ RegistryIdle /\ MetricsIdle /\ CallsIdle

NextConcurrentRender ==
  \/ \E options \in CachePluginOptions : cachePlugin(options)
  \/ \E c \in 1..MaxCalls : \E options \in ConcurrentConfigs :
       ConcurrentRenderBegins(c, options)
  \/ \E c \in 1..MaxCalls : ConcurrentRenderReturns(c)

SpecConcurrentRender == InitConcurrentRender /\ [][NextConcurrentRender]_vars

\* A caller that calls redocHtmlSync and then redocHtml with the same
\* options.
InitSyncAsync ==
  RenderIdle /\ EscIdle /\ HooksIdle /\ MwIdle /\ CacheIdle
  /\ RegistryIdle /\ MetricsIdle /\ CallsIdle

NextSyncAsync ==
  \/ \E c \in SyncConfigs : FirstRedocHtmlSync(c)
  \/ NextCall
  \/ \E c \in SyncConfigs : ThenRedocHtml(c)
  \/ RenderStep

SpecSyncAsync == InitSyncAsync /\ [][NextSyncAsync]_vars

Others ==
  <<renderVars, escVars, hookVars, mwVars, cacheVars, metricsVars, callVars>>

\* One plugin given to createPlugin.
InitValidate ==
  /\ RenderIdle /\ EscIdle /\ HooksIdle /\ MwIdle /\ CacheIdle
  /\ MetricsIdle /\ CallsIdle
  /\ registry = <<>>
  /\ rlast \in {[op |-> "none", plugin |-> p, threw |-> NoThrow] :
                  p \in PluginInputs}

NextValidate ==
  /\ rlast.op = "none"
  /\ createPlugin(rlast.plugin)
  /\ UNCHANGED Others

SpecValidate == InitValidate /\ [][NextValidate]_vars

\* One registry and calls of register, unregister and clear.
InitRegistry ==
  RenderIdle /\ EscIdle /\ HooksIdle /\ MwIdle /\ CacheIdle
  /\ RegistryIdle /\ MetricsIdle /\ CallsIdle

NextRegistry ==
  \/ \E plugin \in RegistryPlugins : register(plugin) /\ UNCHANGED Others
  \/ \E name \in PluginNameInputs : unregister(name) /\ UNCHANGED Others
  \/ clear /\ UNCHANGED Others

SpecRegistry == InitRegistry /\ [][NextRegistry]_vars

NotMetrics ==
  <<renderVars, escVars, hookVars, mwVars, cacheVars, regVars, callVars>>

\* One metrics plugin: requests, finished responses and the calls of its
\* config, in any order.
InitMetrics ==
  /\ RenderIdle /\ EscIdle /\ HooksIdle /\ MwIdle /\ CacheIdle
  /\ RegistryIdle /\ MetricsIdle /\ CallsIdle

NextMetrics ==
  \/ \E options \in MetricsPluginOptions :
       metricsPlugin(options) /\ UNCHANGED NotMetrics
  \/ \E request \in MetricsRequests :
       MetricsOnRequest(request) /\ UNCHANGED NotMetrics
  \/ \E id \in 1..MaxRequests : ResponseFinishes(id) /\ UNCHANGED NotMetrics
  \/ TimePasses /\ UNCHANGED NotMetrics
  \/ GetMetricsCall /\ UNCHANGED NotMetrics
  \/ CopyShift /\ UNCHANGED NotMetrics
  \/ \E i \in 1..MaxMetrics, method \in Methods :
       CopyWrite(i, method) /\ UNCHANGED NotMetrics
  \/ clearMetrics /\ UNCHANGED NotMetrics

SpecMetrics == InitMetrics /\ [][NextMetrics]_vars

\* One metrics plugin, requests that finish in any order and clearMetrics
\* calls, the clock standing still.
InitMetricsBuffer ==
  /\ RenderIdle /\ EscIdle /\ HooksIdle /\ MwIdle /\ CacheIdle
  /\ RegistryIdle /\ MetricsIdle /\ CallsIdle

NextMetricsBuffer ==
  \/ \E options \in MetricsPluginOptions :
       metricsPlugin(options) /\ UNCHANGED NotMetrics
  \/ \E request \in MetricsRequests :
       MetricsOnRequest(request) /\ UNCHANGED NotMetrics
  \/ \E id \in 1..MaxRequests : ResponseFinishes(id) /\ UNCHANGED NotMetrics
  \/ clearMetrics /\ UNCHANGED NotMetrics

SpecMetricsBuffer == InitMetricsBuffer /\ [][NextMetricsBuffer]_vars

\* Render calls without plugins one after the other, while the registry, a
\* cache plugin and a metrics plugin are used.
InitRepeated ==
  /\ RenderIdle /\ EscIdle /\ HooksIdle /\ MwIdle /\ CacheIdle
  /\ RegistryIdle /\ MetricsIdle /\ CallsIdle

NextRepeated ==
  \/ \E c \in RepeatedConfigs : RedocHtml(c)
  \/ ReturnHtml
  \/ \E c \in RepeatedConfigs : RedocHtmlSync(c)
  \/ NextCall
  \/ \E plugin \in OtherPlugins : register(plugin) /\ UNCHANGED Others
  \/ clear /\ UNCHANGED Others
  \/ cachePlugin([enabled |-> TRUE])
  \/ /\ clog = <<>>
     /\ CacheAfterRender(<<"h">>, [title |-> <<"T">>, specUrl |-> <<"/", "s">>])
  \/ metricsPlugin([enabled |-> TRUE]) /\ UNCHANGED NotMetrics
  \/ /\ heap = <<>>
     /\ MetricsOnRequest([method |-> "GET", url |-> <<"/">>])
     /\ UNCHANGED NotMetrics

SpecRepeated == InitRepeated /\ [][NextRepeated]_vars

====
